---- MODULE Spec2Model ----
(***************************************************************************)
(* A model of the UFDR ingestion pipeline (backend/app): the field         *)
(* normalizers, the SQLite ledger (messages, contacts, images), the        *)
(* vector store, the Neo4j person graph and the orchestrator               *)
(* ingest_ufdr_archive that composes them.                                 *)
(*                                                                         *)
(* Text values that the code inspects character by character (actors,      *)
(* names, bodies) are sequences of one-character strings; Python's None    *)
(* for such a value is the constant None.  Identifiers the code only       *)
(* formats and compares (file names, external ids, vector ids, statuses)   *)
(* are TLA+ strings; SQL NULL / Python None for those is NULL.             *)
(***************************************************************************)
EXTENDS Integers, Sequences, FiniteSets, TLC

VARIABLES
    uploads,      \* number of uuid4 extraction ids handed out by persist_upload
    images,       \* ledger table images: sequence of rows, index = AUTOINCREMENT id
    messages,     \* ledger table messages
    contacts,     \* ledger table contacts
    system_info,  \* ledger table system_info
    vectors,      \* vector store collection: dict id -> [text, metadata]
    persons,      \* graph: set of Person nodes
    rels,         \* graph: set of MESSAGED relationships
    aliasMap,     \* CONTACT_ALIAS_MAP (module level dict)
    cfg,          \* settings: [graph, vector, vision |-> BOOLEAN], vision: GEMINI_API_KEY is set
    run,          \* what the last operation was and what it returned
    extracted,    \* history: extracted[uid] = the archive persist_upload stored under uid
    fnIn,         \* argument of the function a function specification applies
    fnOut,        \* its result
    fnPc          \* "idle" | "call" | "done"

vars == <<uploads, images, messages, contacts, system_info, vectors, persons, rels,
          aliasMap, cfg, run, extracted, fnIn, fnOut, fnPc>>

ledgerVars == <<uploads, images, messages, contacts, system_info, vectors, persons,
                rels, aliasMap, cfg, run, extracted>>

fnVars == <<fnIn, fnOut, fnPc>>

-----------------------------------------------------------------------------
(* Text helpers.                                                           *)

\* Python None for a character-sequence value.
None == <<"<None>">>

\* SQL NULL / Python None for an identifier-like value.
NULL == "NULL"

Whitespace == {" ", "\t"}

Digits == {"0", "1", "2", "3", "4", "5", "6", "7", "8", "9"}

UpperChars == <<"A", "B", "E", "J", "L", "S", "T">>

LowerChars == <<"a", "b", "e", "j", "l", "s", "t">>

\* str.lower() on one character
LowerChar(c) ==
    IF \E i \in 1..Len(UpperChars) : UpperChars[i] = c
    THEN LowerChars[CHOOSE i \in 1..Len(UpperChars) : UpperChars[i] = c]
    ELSE c

\* str.lower()
Lower(s) == [i \in 1..Len(s) |-> LowerChar(s[i])]

IsDigit(c) == c \in Digits

RECURSIVE LStrip(_)
\* str.lstrip()
LStrip(s) ==
    IF s # <<>> /\ Head(s) \in Whitespace THEN LStrip(Tail(s)) ELSE s

RECURSIVE RStrip(_)
\* str.rstrip()
RStrip(s) ==
    IF s # <<>> /\ s[Len(s)] \in Whitespace
    THEN RStrip(SubSeq(s, 1, Len(s) - 1))
    ELSE s

\* str.strip()
Strip(s) == RStrip(LStrip(s))

\* str.startswith(p)
StartsWith(s, p) == Len(s) >= Len(p) /\ SubSeq(s, 1, Len(p)) = p

\* c in s
Contains(s, c) == \E i \in 1..Len(s) : s[i] = c

\* Python truthiness of an Optional[str]
Truthy(s) == s # None /\ s # <<>>

\* Python `a or b` on Optional[str]
Or(a, b) == IF Truthy(a) THEN a ELSE b

TelPrefix == <<"t", "e", "l", ":">>

-----------------------------------------------------------------------------
(* utils/graph.py                                                          *)

\* canonicalize_actor with the "+" test made on the text before the tel:
\* prefix is removed
canonicalize_actor_plus_on_original(value) ==
    IF value = None THEN None
    ELSE LET text0 == Strip(value) IN
         IF text0 = <<>> THEN None
         ELSE LET text == IF StartsWith(Lower(text0), TelPrefix)
                          THEN SubSeq(text0, 5, Len(text0)) ELSE text0
                  digits == SelectSeq(text, IsDigit)
              IN  IF Contains(text, "@") THEN Lower(text)
                  ELSE IF digits # <<>>
                       THEN (IF StartsWith(text0, <<"+">>) THEN <<"+">> ELSE <<>>)
                            \o digits
                       ELSE Lower(text)

canonicalize_actor(value) ==
    IF value = None THEN None
    ELSE LET text0 == Strip(value) IN
         IF text0 = <<>> THEN None
         ELSE LET text == IF StartsWith(Lower(text0), TelPrefix)
                          THEN SubSeq(text0, 5, Len(text0)) ELSE text0
                  lower_text == Lower(text)
                  digits == SelectSeq(text, IsDigit)
              IN  IF Contains(text, "@") THEN lower_text
                  ELSE IF digits # <<>>
                       THEN (IF StartsWith(Strip(text), <<"+">>) THEN <<"+">> ELSE <<>>)
                            \o digits
                       ELSE lower_text

\* compose_display_name
compose_display_name(given_name, family_name) ==
    LET g == IF Truthy(given_name) THEN <<Strip(given_name)>> ELSE <<>>
        f == IF Truthy(family_name) THEN <<Strip(family_name)>> ELSE <<>>
        filtered == g \o f
    IN  IF filtered = <<>> THEN None
        ELSE IF Len(filtered) = 1 THEN filtered[1]
        ELSE filtered[1] \o <<" ">> \o filtered[2]

-----------------------------------------------------------------------------
(* services/ufdr_ingest.py: _safe_parse_timestamp                          *)
(*                                                                         *)
(* The argument is the text of a column value.  Its model says what the    *)
(* text denotes:                                                           *)
(*   [k |-> "none"]                         None                           *)
(*   [k |-> "num", scale, sec, ms]          a decimal number:              *)
(*        scale = 1    : sec + ms/1000      (seconds, with a fraction)     *)
(*        scale = 1000 : sec*1000 + ms      (a 13 digit millisecond count) *)
(*   [k |-> "mag", sign, exp]               sign * 10^exp, e.g. "1e15"     *)
(*   [k |-> "inf", sign]                    "inf" / "-inf"                 *)
(*   [k |-> "nan"]                          "nan"                          *)
(*   [k |-> "iso", y, mo, d, h, mi, s, tz, off]                            *)
(*        "YYYY-MM-DDTHH:MM:SS" (tz FALSE) or with "+HH:MM" (tz TRUE,      *)
(*        off minutes)                                                     *)
(*   [k |-> "text", t]                      any other text                 *)
(* The two scales keep every intermediate value below 2^31.                *)
(* The result is [k |-> "none"], an ISO instant                            *)
(* [k |-> "iso", y, mo, d, h, mi, s, us, off], [k |-> "raw", of |-> v]     *)
(* for str(value), or [k |-> "raise", exc] when an exception leaves the    *)
(* function.                                                               *)

APPLE_EPOCH_OFFSET == 978307200

\* float(value): the texts that parse as a float
IsNumeric(v) == v.k \in {"num", "mag", "inf", "nan"}

\* numeric_value > 1e12
GreaterThan1e12(n) ==
    CASE n.k = "num" /\ n.scale = 1 -> FALSE   \* |sec| < 2^31 < 1e12
      [] n.k = "num" /\ n.scale = 1000 ->
            n.sec > 1000000000 \/ (n.sec = 1000000000 /\ n.ms > 0)
      [] n.k = "mag" -> n.sign = 1 /\ n.exp > 12
      [] n.k = "inf" -> n.sign = 1
      [] OTHER -> FALSE                         \* nan compares false

\* numeric_value /= 1000
DivideBy1000(n) ==
    CASE n.k = "num" -> [n EXCEPT !.scale = 1]
      [] n.k = "mag" -> [n EXCEPT !.exp = n.exp - 3]
      [] OTHER -> n

\* numeric_value >= APPLE_EPOCH_OFFSET
GreaterOrEqualOffset(n) ==
    CASE n.k = "num" /\ n.scale = 1 -> n.sec >= APPLE_EPOCH_OFFSET
      [] n.k = "num" /\ n.scale = 1000 ->
            n.sec > (APPLE_EPOCH_OFFSET \div 1000)
            \/ (n.sec = (APPLE_EPOCH_OFFSET \div 1000) /\ n.ms >= (APPLE_EPOCH_OFFSET % 1000))
      [] n.k = "mag" -> n.sign = 1 /\ n.exp >= 9
      [] n.k = "inf" -> n.sign = 1
      [] OTHER -> FALSE

\* numeric_value > APPLE_EPOCH_OFFSET
GreaterThanOffset(n) ==
    CASE n.k = "num" /\ n.scale = 1 ->
            n.sec > APPLE_EPOCH_OFFSET \/ (n.sec = APPLE_EPOCH_OFFSET /\ n.ms > 0)
      [] n.k = "num" /\ n.scale = 1000 ->
            n.sec > (APPLE_EPOCH_OFFSET \div 1000)
            \/ (n.sec = (APPLE_EPOCH_OFFSET \div 1000) /\ n.ms > (APPLE_EPOCH_OFFSET % 1000))
      [] n.k = "mag" -> n.sign = 1 /\ n.exp >= 9
      [] n.k = "inf" -> n.sign = 1
      [] OTHER -> FALSE

\* numeric_value -= APPLE_EPOCH_OFFSET
SubtractOffset(n) ==
    CASE n.k = "num" /\ n.scale = 1 -> [n EXCEPT !.sec = n.sec - APPLE_EPOCH_OFFSET]
      [] n.k = "num" /\ n.scale = 1000 ->
            LET lo == n.ms - (APPLE_EPOCH_OFFSET % 1000)
                hi == n.sec - (APPLE_EPOCH_OFFSET \div 1000)
            IN  IF lo < 0 THEN [n EXCEPT !.sec = hi - 1, !.ms = lo + 1000]
                ELSE [n EXCEPT !.sec = hi, !.ms = lo]
      [] OTHER -> n          \* a float of magnitude >= 1e12 keeps its decade

\* the proleptic Gregorian date of a day number counted from 1970-01-01
CivilFromDays(days) ==
    LET z == days + 719468
        era == z \div 146097
        doe == z - era * 146097
        yoe == (doe - (doe \div 1460) + (doe \div 36524) - (doe \div 146096)) \div 365
        doy == doe - (365 * yoe + (yoe \div 4) - (yoe \div 100))
        mp == (5 * doy + 2) \div 153
        d == doy - ((153 * mp + 2) \div 5) + 1
        m == IF mp < 10 THEN mp + 3 ELSE mp - 9
        y == yoe + era * 400 + (IF m <= 2 THEN 1 ELSE 0)
    IN  [y |-> y, mo |-> m, d |-> d]

\* the UTC instant of (days, second of day, microsecond)
IsoInstant(days, sod, us) ==
    LET c == CivilFromDays(days) IN
    [k |-> "iso", y |-> c.y, mo |-> c.mo, d |-> c.d,
     h |-> (sod \div 3600), mi |-> (sod % 3600) \div 60, s |-> (sod % 60),
     us |-> us, off |-> 0]

\* datetime.fromtimestamp(numeric_value, tz=timezone.utc): the instant, or the
\* exception CPython raises ([k |-> "exc", exc |-> name])
FromTimestamp(n) ==
    CASE n.k = "num" /\ n.scale = 1 ->
            \* -62135596800 <= sec <= 253402300799 holds of every 32 bit value
            IsoInstant((n.sec \div 86400), (n.sec % 86400), n.ms * 1000)
      [] n.k = "num" /\ n.scale = 1000 ->
            \* seconds = sec*1000 + ms, at most 1e12; year 9999 ends at 253402300799
            IF n.sec > 253402300 \/ (n.sec = 253402300 /\ n.ms > 799)
                  \/ n.sec < 0
            THEN [k |-> "exc", exc |-> "ValueError"]
            ELSE LET a == n.sec \div 86400
                     rest == (n.sec % 86400) * 1000 + n.ms
                 IN  IsoInstant(a * 1000 + (rest \div 86400), (rest % 86400), 0)
      [] n.k = "mag" ->
            \* year out of range; gmtime() fails with EOVERFLOW; time_t overflow
            IF n.exp <= 16 THEN [k |-> "exc", exc |-> "ValueError"]
            ELSE IF n.exp <= 18 THEN [k |-> "exc", exc |-> "OSError"]
            ELSE [k |-> "exc", exc |-> "OverflowError"]
      [] n.k = "inf" -> [k |-> "exc", exc |-> "OverflowError"]
      [] OTHER -> [k |-> "exc", exc |-> "ValueError"]     \* nan

DaysInMonth(y, mo) ==
    IF mo = 2
    THEN (IF (y % 4) = 0 /\ ((y % 100) # 0 \/ (y % 400) = 0) THEN 29 ELSE 28)
    ELSE IF mo \in {4, 6, 9, 11} THEN 30 ELSE 31

\* datetime.fromisoformat(str(value)) succeeds
IsIsoText(v) ==
    /\ v.k = "iso"
    /\ v.y \in 1..9999 /\ v.mo \in 1..12 /\ v.d \in 1..DaysInMonth(v.y, v.mo)
    /\ v.h \in 0..23 /\ v.mi \in 0..59 /\ v.s \in 0..59

\* _safe_parse_timestamp
safe_parse_timestamp(value) ==
    IF value.k = "none" THEN [k |-> "none"]
    ELSE IF ~IsNumeric(value)
    THEN \* float() raised ValueError: try ISO-8601
         IF IsIsoText(value)
         THEN [k |-> "iso", y |-> value.y, mo |-> value.mo, d |-> value.d,
               h |-> value.h, mi |-> value.mi, s |-> value.s, us |-> 0,
               off |-> IF value.tz THEN value.off ELSE 0]
         ELSE [k |-> "raw", of |-> value]
    ELSE LET n1 == IF GreaterThan1e12(value) THEN DivideBy1000(value) ELSE value
             n2 == IF GreaterThanOffset(n1) THEN SubtractOffset(n1) ELSE n1
             parsed == FromTimestamp(n2)
         IN  IF parsed.k = "exc"
             THEN IF parsed.exc \in {"OverflowError", "ValueError"}
                  THEN [k |-> "raw", of |-> value]
                  ELSE [k |-> "raise", exc |-> parsed.exc]
             ELSE parsed

-----------------------------------------------------------------------------
(* Python dicts.                                                           *)

EmptyDict == <<>>

\* d[k] = v
Put(d, k, v) == [x \in (DOMAIN d) \cup {k} |-> IF x = k THEN v ELSE d[x]]

\* {**old, **new}: the keys of both, new values win
Merge(old, new) ==
    [x \in (DOMAIN old) \cup (DOMAIN new) |-> IF x \in DOMAIN new THEN new[x] ELSE old[x]]

\* a lookup that finds no alias
AliasGetMissing(d, k) == None

\* CONTACT_ALIAS_MAP.get(k)
AliasGet(d, k) == IF k \in DOMAIN d THEN d[k] ELSE None

\* alias_map.setdefault(k, v)
SetDefault(d, k, v) == IF k \in DOMAIN d THEN d ELSE Put(d, k, v)

-----------------------------------------------------------------------------
(* services/graph.py: GraphClient.  A Person node is                       *)
(* [node, id, raw_identifier, display_name, given_name, family_name,       *)
(* last_seen_source]; a MESSAGED relationship is [rel, from, to,           *)
(* message_id, timestamp, body, conversation_id, source], from and to      *)
(* being node numbers.  An absent property is None (NULL for the source).  *)

NewPerson(P, id) ==
    [node |-> Cardinality(P) + 1, id |-> id, raw_identifier |-> None,
     display_name |-> None, given_name |-> None, family_name |-> None,
     last_seen_source |-> NULL]

\* MERGE (p:Person {id: $id})
MergePerson(P, id) ==
    IF \E p \in P : p.id = id THEN P ELSE P \cup {NewPerson(P, id)}

\* the CASE of register_person's display_name without `$display_name IS NOT NULL`
PersonDisplayNameOverwrite(stored, raw_identifier, display_name) ==
    IF stored = None \/ stored = raw_identifier THEN display_name ELSE stored

\* CASE WHEN $display_name IS NOT NULL AND (p.display_name IS NULL OR
\*   p.display_name = p.raw_identifier) THEN $display_name ELSE p.display_name
PersonDisplayName(stored, raw_identifier, display_name) ==
    IF display_name # None /\ (stored = None \/ stored = raw_identifier)
    THEN display_name ELSE stored

\* CASE WHEN $x IS NOT NULL THEN $x ELSE p.x: the last writer wins
PersonNamePartLastWins(stored, new) ==
    IF new # None THEN new ELSE stored

\* CASE WHEN $x IS NOT NULL AND (p.x IS NULL OR p.x = '') THEN $x ELSE p.x
PersonNamePart(stored, new) ==
    IF new # None /\ (stored = None \/ stored = <<>>) THEN new ELSE stored

\* the write transaction of register_person
RegisterPersonTx(P, identifier, display_name, given_name, family_name, raw_identifier, source) ==
    LET raw == Or(raw_identifier, identifier)
        upd(p) ==
            LET r == IF p.raw_identifier = None THEN raw ELSE p.raw_identifier IN
            [p EXCEPT !.raw_identifier = r,
                      !.last_seen_source = source,
                      !.display_name = PersonDisplayName(p.display_name, r, display_name),
                      !.given_name = PersonNamePart(p.given_name, given_name),
                      !.family_name = PersonNamePart(p.family_name, family_name)]
    IN  {IF p.id = identifier THEN upd(p) ELSE p : p \in MergePerson(P, identifier)}

\* SET x.display_name = CASE WHEN x.display_name IS NULL AND $label IS NOT NULL
\*   THEN $label ELSE x.display_name END, x.last_seen_source = $source
TouchEndpoint(P, id, label, source) ==
    {IF p.id = id
     THEN [p EXCEPT !.display_name = IF p.display_name = None /\ label # None
                                     THEN label ELSE p.display_name,
                    !.last_seen_source = source]
     ELSE p : p \in MergePerson(P, id)}

NodesOf(P, id) == {p.node : p \in {q \in P : q.id = id}}

\* CREATE instead of MERGE for the relationship
CreateMessaged(R, from, to, message_id, attrs) ==
    R \cup {[rel |-> Cardinality(R) + 1, from |-> from, to |-> to,
             message_id |-> message_id, timestamp |-> attrs.timestamp,
             body |-> attrs.body, conversation_id |-> attrs.conversation_id,
             source |-> attrs.source]}

\* MERGE (sender)-[rel:MESSAGED {message_id: $message_id}]->(receiver)
\* SET rel.timestamp, rel.body, rel.conversation_id, rel.source
MergeMessaged(R, from, to, message_id, attrs) ==
    IF \E r \in R : r.from = from /\ r.to = to /\ r.message_id = message_id
    THEN {IF r.from = from /\ r.to = to /\ r.message_id = message_id
          THEN [r EXCEPT !.timestamp = attrs.timestamp, !.body = attrs.body,
                         !.conversation_id = attrs.conversation_id,
                         !.source = attrs.source]
          ELSE r : r \in R}
    ELSE R \cup {[rel |-> Cardinality(R) + 1, from |-> from, to |-> to,
                  message_id |-> message_id, timestamp |-> attrs.timestamp,
                  body |-> attrs.body, conversation_id |-> attrs.conversation_id,
                  source |-> attrs.source]}

\* the write transaction of register_message: [persons, rels] afterwards
RegisterMessageTx(P, R, message_id, sender_id, receiver_id, attrs, sender_label, receiver_label) ==
    LET P1 == TouchEndpoint(P, sender_id, Or(sender_label, sender_id), attrs.source)
        P2 == TouchEndpoint(P1, receiver_id, Or(receiver_label, receiver_id), attrs.source)
        from == CHOOSE n \in NodesOf(P2, sender_id) : TRUE
        to == CHOOSE n \in NodesOf(P2, receiver_id) : TRUE
    IN  [persons |-> P2, rels |-> MergeMessaged(R, from, to, message_id, attrs)]

-----------------------------------------------------------------------------
(* The archives of the model.  A member file is [name, suffix, hints,      *)
(* tables] (hints: the keywords its lowercased name contains) or an image  *)
(* [rel]; a table is [name, columns, rows].  A message row carries the     *)
(* values _pick_first_value finds for it: [rowid, body, sender, receiver,  *)
(* ts, conv]; a contact row carries [rowid, name, first, last, phone,      *)
(* email].                                                                 *)

Phone15 == <<"+", "1", "5">>

TelPhone15 == <<"t", "e", "l", ":", "+", "1", "5">>

EmailAB == <<"a", "@", "b">>

EmailABUpper == <<"A", "@", "b">>

NameJane == <<"J", "a", "n", "e">>

NameAl == <<"A", "l">>

BodyHi == <<"h", "i">>

BodyYo == <<"y", "o">>

BodyBlank == <<" ">>

TsNone == [k |-> "none"]

TsApple == [k |-> "num", scale |-> 1, sec |-> 700000000, ms |-> 0]

MessageColumns == {"text", "date", "sender", "receiver", "thread"}

\* the text "1e20": a count of milliseconds far beyond the year 9999
TsHuge == [k |-> "mag", sign |-> 1, exp |-> 20]

\* columns that satisfy _looks_like_message_table and _looks_like_contact_table
BothColumns == {"text", "date", "sender", "receiver", "name", "phone"}

ContactColumns == {"name", "first", "last", "phone", "email"}

Archives == {"A", "B", "C"}

\* an uploaded file that zipfile cannot extract
CorruptArchives == {"Z"}

\* zipfile.ZipFile(archive_path) opens the file as an archive, with no check
IsZipUnchecked(a) == TRUE

\* zipfile.ZipFile(archive_path) opens the file as an archive
IsZip(a) == a \notin CorruptArchives

\* what zipfile raises on such a file: BadZipFile (not a zip file, truncated,
\* bad CRC) or, from the decompressor, zlib.error
ExtractionErrors == {"BadZipFile", "zlib.error"}

ArchiveMembers(a) ==
    IF a = "A"
    THEN [dbs |-> <<
            [name |-> "sms.db", suffix |-> ".db", hints |-> {"sms"},
             tables |-> <<
               [name |-> "message", columns |-> MessageColumns,
                rows |-> <<
                  [rowid |-> 1, body |-> BodyHi, sender |-> Phone15,
                   receiver |-> EmailAB, ts |-> TsApple, conv |-> None],
                  [rowid |-> 2, body |-> None, sender |-> Phone15,
                   receiver |-> EmailAB, ts |-> TsNone, conv |-> None],
                  [rowid |-> 3, body |-> BodyBlank, sender |-> None,
                   receiver |-> EmailAB, ts |-> TsNone, conv |-> None]>>]>>],
            [name |-> "contacts.db", suffix |-> ".db", hints |-> {"contact"},
             tables |-> <<
               [name |-> "people", columns |-> ContactColumns,
                rows |-> <<
                  [rowid |-> 1, name |-> NameJane, first |-> None, last |-> None,
                   phone |-> TelPhone15, email |-> None]>>]>>]>>,
          xmls |-> <<>>, plists |-> <<>>,
          images |-> <<"a.jpg", "b.jpg">>]
    ELSE IF a = "C"
    THEN \* chat.db and addressbook.db are not SQLite files, contacts_old.xml
         \* is not well-formed XML and broken.plist is not a property list
         [dbs |-> <<
            [name |-> "chat.db", suffix |-> ".db", hints |-> {"chat"}],
            [name |-> "mms.sqlite", suffix |-> ".sqlite", hints |-> {"mms"},
             tables |-> <<
               [name |-> "message", columns |-> MessageColumns,
                rows |-> <<
                  [rowid |-> 1, body |-> BodyYo, sender |-> Phone15,
                   receiver |-> EmailAB, ts |-> TsNone, conv |-> None]>>]>>],
            [name |-> "addressbook.db", suffix |-> ".db", hints |-> {"addressbook"}],
            [name |-> "contact_list.db", suffix |-> ".db", hints |-> {"contact"},
             tables |-> <<
               [name |-> "people", columns |-> ContactColumns,
                rows |-> <<
                  [rowid |-> 1, name |-> NameJane, first |-> None, last |-> None,
                   phone |-> Phone15, email |-> None]>>]>>]>>,
          xmls |-> <<
            [name |-> "contacts_old.xml", hints |-> {"contact"}, wellformed |-> FALSE],
            [name |-> "contacts.xml", hints |-> {"contact"}, wellformed |-> TRUE,
             contacts |-> <<
               [displayName |-> None, firstName |-> NameAl, lastName |-> None,
                phone |-> None, email |-> EmailAB]>>]>>,
          plists |-> <<
            [name |-> "broken.plist", stem |-> "broken", valid |-> FALSE],
            [name |-> "device.plist", stem |-> "device", valid |-> TRUE,
             items |-> <<[key |-> "ProductType", value |-> "iPhone"]>>]>>,
          images |-> <<>>]
    ELSE IF a = "D"
    THEN \* the tables log and notes have columns of both kinds; row 2 of
         \* chat.db:message has a timestamp datetime.fromtimestamp cannot take;
         \* two rows of people share the identity a@b; the contact of
         \* contacts.xml has a first name and nothing else
         [dbs |-> <<
            [name |-> "chat.db", suffix |-> ".db", hints |-> {"chat"},
             tables |-> <<
               [name |-> "log", columns |-> BothColumns,
                rows |-> <<
                  [rowid |-> 1, body |-> BodyHi, sender |-> Phone15,
                   receiver |-> EmailAB, ts |-> TsNone, conv |-> None,
                   name |-> NameJane, first |-> None, last |-> None,
                   phone |-> Phone15, email |-> None]>>],
               [name |-> "message", columns |-> MessageColumns,
                rows |-> <<
                  [rowid |-> 1, body |-> BodyYo, sender |-> EmailAB,
                   receiver |-> Phone15, ts |-> TsNone, conv |-> None],
                  [rowid |-> 2, body |-> BodyHi, sender |-> Phone15,
                   receiver |-> EmailAB, ts |-> TsHuge, conv |-> None]>>]>>],
            [name |-> "contacts.db", suffix |-> ".db", hints |-> {"contact"},
             tables |-> <<
               [name |-> "notes", columns |-> BothColumns,
                rows |-> <<
                  [rowid |-> 1, body |-> BodyYo, sender |-> Phone15,
                   receiver |-> EmailAB, ts |-> TsNone, conv |-> None,
                   name |-> NameJane, first |-> None, last |-> None,
                   phone |-> Phone15, email |-> None]>>],
               [name |-> "people", columns |-> ContactColumns,
                rows |-> <<
                  [rowid |-> 1, name |-> None, first |-> NameAl, last |-> None,
                   phone |-> None, email |-> EmailAB],
                  [rowid |-> 2, name |-> NameJane, first |-> None, last |-> None,
                   phone |-> None, email |-> EmailABUpper]>>]>>]>>,
          xmls |-> <<
            [name |-> "contacts.xml", hints |-> {"contact"}, wellformed |-> TRUE,
             contacts |-> <<
               [displayName |-> None, firstName |-> NameAl, lastName |-> None,
                phone |-> None, email |-> None]>>]>>,
          plists |-> <<>>,
          images |-> <<>>]
    ELSE [dbs |-> <<
            [name |-> "sms.db", suffix |-> ".db", hints |-> {"sms"},
             tables |-> <<
               [name |-> "message", columns |-> MessageColumns,
                rows |-> <<
                  [rowid |-> 1, body |-> BodyYo, sender |-> EmailAB,
                   receiver |-> Phone15, ts |-> TsApple, conv |-> None],
                  [rowid |-> 2, body |-> BodyHi, sender |-> Phone15,
                   receiver |-> EmailAB, ts |-> TsNone, conv |-> None]>>]>>],
            [name |-> "contacts.db", suffix |-> ".db", hints |-> {"contact"},
             tables |-> <<
               [name |-> "people", columns |-> ContactColumns,
                rows |-> <<
                  [rowid |-> 1, name |-> None, first |-> NameAl, last |-> None,
                   phone |-> Phone15, email |-> EmailABUpper]>>]>>]>>,
          xmls |-> <<>>, plists |-> <<>>,
          images |-> <<"a.jpg">>]

\* str(path) of a file below the extraction directory of upload uid
PathOf(uid, rel) == "extracted/" \o ToString(uid) \o "/" \o rel

-----------------------------------------------------------------------------
(* services/ufdr_ingest.py: source discovery and table classification.     *)

MESSAGE_DB_KEYWORDS == {"sms", "message", "chat", "imessage", "mms", "whatsapp"}

CONTACT_DB_KEYWORDS == {"contact", "addressbook"}

TEXT_FIELDS == {"text", "body", "message", "content", "value", "notes"}

TIMESTAMP_FIELDS == {"timestamp", "date", "created", "sent", "received", "time", "modified"}

\* discover_sources: the database files appended to sources.message_dbs
DiscoverMessageDbs(a) ==
    SelectSeq(ArchiveMembers(a).dbs,
              LAMBDA f : f.suffix \in {".sqlite", ".db"}
                         /\ f.hints \cap MESSAGE_DB_KEYWORDS # {})

\* discover_sources: the database files appended to sources.contact_dbs
DiscoverContactDbs(a) ==
    SelectSeq(ArchiveMembers(a).dbs,
              LAMBDA f : f.suffix \in {".sqlite", ".db"}
                         /\ f.hints \cap MESSAGE_DB_KEYWORDS = {}
                         /\ f.hints \cap CONTACT_DB_KEYWORDS # {})

\* discover_sources: the files appended to sources.contact_xml_files
DiscoverContactXml(a) ==
    SelectSeq(ArchiveMembers(a).xmls, LAMBDA f : "contact" \in f.hints)

\* discover_sources: the files appended to sources.system_plists
DiscoverPlists(a) == ArchiveMembers(a).plists

\* connection.execute on the file works: it is an SQLite database
IsSqlite(db) == "tables" \in DOMAIN db

\* _looks_like_message_table
looks_like_message_table(columns) ==
    columns \cap TEXT_FIELDS # {} /\ columns \cap TIMESTAMP_FIELDS # {}

\* _looks_like_contact_table
looks_like_contact_table(columns) ==
    /\ ("contact" \in columns \/ columns \cap {"first", "last", "name"} # {})
    /\ columns \cap {"phone", "number", "email", "address"} # {}

-----------------------------------------------------------------------------
(* services/ufdr_ingest.py: graph registration during a run.  The state a  *)
(* run threads through its steps is st = [messages, contacts, images,      *)
(* persons, rels, alias, stats, calls, sent]: the ledger tables, the graph, *)
(* CONTACT_ALIAS_MAP, the run's GraphStats, the number of write            *)
(* transactions sent to the graph store so far and the calls made of       *)
(* GRAPH_CLIENT with their arguments and results.  gf is the set of those  *)
(* transactions (by number) that the graph store fails.                    *)

NewGraphStats ==
    [contacts_registered |-> 0, relationships_registered |-> 0,
     seen_contact_identifiers |-> {}, seen_message_ids |-> {}]

\* GraphClient.register_person: [st, ok]
ClientRegisterPerson(st, gf, identifier, display_name, given_name, family_name, raw_identifier, source) ==
    LET call(ok) == [op |-> "register_person", identifier |-> identifier,
                     display_name |-> display_name, raw_identifier |-> raw_identifier,
                     ok |-> ok]
    IN  IF ~cfg.graph \/ ~Truthy(identifier)
        THEN [st |-> [st EXCEPT !.sent = Append(@, call(FALSE))], ok |-> FALSE]
        ELSE IF (st.calls + 1) \in gf
        THEN [st |-> [st EXCEPT !.calls = @ + 1, !.sent = Append(@, call(FALSE))],
              ok |-> FALSE]
        ELSE [st |-> [st EXCEPT !.calls = @ + 1, !.sent = Append(@, call(TRUE)),
                                !.persons = RegisterPersonTx(@, identifier, display_name,
                                                given_name, family_name, raw_identifier, source)],
              ok |-> TRUE]

\* GraphClient.register_message: [st, ok]
ClientRegisterMessage(st, gf, message_id, sender_id, receiver_id, attrs, sender_label, receiver_label) ==
    LET call(ok) == [op |-> "register_message", message_id |-> message_id,
                     sender_id |-> sender_id, receiver_id |-> receiver_id,
                     sender_label |-> sender_label, receiver_label |-> receiver_label,
                     ok |-> ok]
    IN  IF ~cfg.graph \/ ~Truthy(sender_id) \/ ~Truthy(receiver_id)
        THEN [st |-> [st EXCEPT !.sent = Append(@, call(FALSE))], ok |-> FALSE]
        ELSE IF (st.calls + 1) \in gf
        THEN [st |-> [st EXCEPT !.calls = @ + 1, !.sent = Append(@, call(FALSE))],
              ok |-> FALSE]
        ELSE LET written(g) ==
                     [st |-> [st EXCEPT !.calls = @ + 1, !.sent = Append(@, call(TRUE)),
                                        !.persons = g.persons, !.rels = g.rels],
                      ok |-> TRUE]
             IN  written(RegisterMessageTx(st.persons, st.rels, message_id, sender_id,
                                           receiver_id, attrs, sender_label, receiver_label))

\* the (canonical, raw) pairs _register_contact_with_graph registers
ContactIdentifiers(display_name, phone_number, email) ==
    LET cand(raw) ==
            LET c == canonicalize_actor(raw) IN
            IF Truthy(c) THEN <<(<<c, Or(raw, c)>>)>> ELSE <<>>
        ids == cand(phone_number) \o cand(email)
    IN  IF ids = <<>> /\ Truthy(display_name) /\ Truthy(canonicalize_actor(display_name))
        THEN <<(<<canonicalize_actor(display_name), display_name>>)>>
        ELSE ids

RECURSIVE RegisterIdentifiersRecounting(_, _, _, _, _, _, _)
\* the loop with contacts_registered incremented on every success
RegisterIdentifiersRecounting(st, gf, ids, preferred_name, given_name, family_name, source) ==
    IF ids = <<>> THEN st
    ELSE LET canonical == ids[1][1]
             raw == ids[1][2]
             alias_value == Or(preferred_name, raw)
             after(r) ==
                 IF r.ok
                 THEN [r.st EXCEPT !.stats.seen_contact_identifiers = @ \cup {canonical},
                                   !.stats.contacts_registered = @ + 1,
                                   !.alias = IF Truthy(alias_value)
                                             THEN Put(@, canonical, alias_value) ELSE @]
                 ELSE r.st
         IN  RegisterIdentifiersRecounting(
                 after(ClientRegisterPerson(st, gf, canonical, preferred_name, given_name,
                                            family_name, raw, source)),
                 gf, Tail(ids), preferred_name, given_name, family_name, source)

RECURSIVE RegisterIdentifiers(_, _, _, _, _, _, _)
\* the loop `for canonical, raw in identifiers` of _register_contact_with_graph
RegisterIdentifiers(st, gf, ids, preferred_name, given_name, family_name, source) ==
    IF ids = <<>> THEN st
    ELSE LET canonical == ids[1][1]
             raw == ids[1][2]
             alias_value == Or(preferred_name, raw)
             counted(stats) ==
                 IF canonical \in stats.seen_contact_identifiers THEN stats
                 ELSE [stats EXCEPT !.seen_contact_identifiers = @ \cup {canonical},
                                    !.contacts_registered = @ + 1]
             after(r) ==
                 IF r.ok
                 THEN [r.st EXCEPT !.stats = counted(@),
                                   !.alias = IF Truthy(alias_value)
                                             THEN Put(@, canonical, alias_value) ELSE @]
                 ELSE r.st
         IN  RegisterIdentifiers(
                 after(ClientRegisterPerson(st, gf, canonical, preferred_name, given_name,
                                            family_name, raw, source)),
                 gf, Tail(ids), preferred_name, given_name, family_name, source)

\* _register_contact_with_graph
register_contact_with_graph(st, gf, display_name, given_name, family_name, phone_number, email, source) ==
    IF ~cfg.graph THEN st
    ELSE LET registered(ids) ==
                 RegisterIdentifiers(st, gf, ids,
                     Or(display_name,
                        Or(compose_display_name(given_name, family_name),
                           IF ids # <<>> THEN ids[1][2] ELSE None)),
                     given_name, family_name, source)
         IN  registered(ContactIdentifiers(display_name, phone_number, email))

\* _register_message_with_graph
register_message_with_graph(st, gf, message_id, sender, receiver, attrs) ==
    IF ~cfg.graph THEN st
    ELSE LET counted(stats) ==
                 IF message_id \in stats.seen_message_ids THEN stats
                 ELSE [stats EXCEPT !.seen_message_ids = @ \cup {message_id},
                                    !.relationships_registered = @ + 1]
             labelled(sender_id, receiver_id, sender_label, receiver_label) ==
                 LET after(r) ==
                         IF r.ok
                         THEN [r.st EXCEPT !.stats = counted(@),
                                           !.alias = Put(Put(@, sender_id, sender_label),
                                                         receiver_id, receiver_label)]
                         ELSE r.st
                 IN  after(ClientRegisterMessage(st, gf, message_id, sender_id, receiver_id,
                                                 attrs, sender_label, receiver_label))
             canonical(sender_id, receiver_id) ==
                 IF ~Truthy(sender_id) \/ ~Truthy(receiver_id) THEN st
                 ELSE labelled(sender_id, receiver_id,
                               Or(AliasGet(st.alias, sender_id), Or(sender, sender_id)),
                               Or(AliasGet(st.alias, receiver_id), Or(receiver, receiver_id)))
         IN  canonical(canonicalize_actor(sender), canonicalize_actor(receiver))

-----------------------------------------------------------------------------
(* services/ufdr_ingest.py: the messages and contacts tables.              *)

\* f"{db_path.name}:{table_name}:{rowid}"
ExternalId(db, table, row) == db.name \o ":" \o table.name \o ":" \o ToString(row.rowid)

\* vector_id of a message row with `if message_body:` for the condition
MessageVectorIdNoStrip(external_id, body) ==
    IF Truthy(body) THEN "msg:" \o external_id ELSE NULL

\* vector_id of a message row: None unless the body has a non-blank character
MessageVectorId(external_id, body) ==
    IF Truthy(body) /\ Strip(body) # <<>> THEN "msg:" \o external_id ELSE NULL

\* the unique index idx_messages_vector_id holds of the table
VectorIdsUnique(rows) ==
    \A i, j \in DOMAIN rows :
        (i # j /\ rows[i].vector_id # NULL) => rows[i].vector_id # rows[j].vector_id

\* INSERT OR IGNORE INTO messages: the row is ignored
MessageInsertIgnored(rows, vector_id) ==
    vector_id # NULL /\ \E i \in DOMAIN rows : rows[i].vector_id = vector_id

\* UPDATE messages SET vector_id = COALESCE(vector_id, ?) WHERE external_id = ?
BackfillVectorId(rows, external_id, vector_id) ==
    [i \in DOMAIN rows |->
        IF rows[i].external_id = external_id /\ rows[i].vector_id = NULL
        THEN [rows[i] EXCEPT !.vector_id = vector_id] ELSE rows[i]]

RECURSIVE IngestMessageRows(_, _, _, _, _, _)
\* the loop `for row in rows` of _ingest_messages_from_table; acc is
\* [st, ingested, emb, failed], failed naming the exception that ended it
IngestMessageRows(acc, gf, uid, db, table, rows) ==
    IF rows = <<>> \/ acc.failed # "" THEN acc
    ELSE LET row == Head(rows)
             source == PathOf(uid, db.name)
             step(timestamp_iso, external_id, vector_id) ==
                 LET ignored == MessageInsertIgnored(acc.st.messages, vector_id)
                     backfilled == BackfillVectorId(acc.st.messages, external_id, vector_id)
                     new_row == [external_id |-> external_id, conversation_id |-> row.conv,
                                 sender |-> row.sender, receiver |-> row.receiver,
                                 timestamp |-> timestamp_iso, body |-> row.body,
                                 source |-> source, vector_id |-> vector_id]
                     attrs == [timestamp |-> timestamp_iso, body |-> row.body,
                               conversation_id |-> row.conv, source |-> source]
                     rec == [vector_id |-> vector_id, text |-> row.body,
                             metadata |-> [external_id |-> external_id,
                                           source |-> source, table |-> table.name]]
                 IN  IF timestamp_iso.k = "raise"
                     THEN [acc EXCEPT !.failed = timestamp_iso.exc]
                     ELSE IF ignored /\ ~VectorIdsUnique(backfilled)
                     THEN [acc EXCEPT !.failed = "IntegrityError"]
                     ELSE IngestMessageRows(
                              [st |-> register_message_with_graph(
                                          [acc.st EXCEPT !.messages =
                                               IF ignored THEN backfilled ELSE Append(@, new_row)],
                                          gf, external_id, row.sender, row.receiver, attrs),
                               ingested |-> IF ignored THEN acc.ingested ELSE acc.ingested + 1,
                               emb |-> IF vector_id # NULL THEN Append(acc.emb, rec) ELSE acc.emb,
                               failed |-> ""],
                              gf, uid, db, table, Tail(rows))
         IN  step(safe_parse_timestamp(row.ts), ExternalId(db, table, row),
                  MessageVectorId(ExternalId(db, table, row), row.body))

\* _ingest_messages_from_table on a connection in autocommit mode: the rows
\* written before an exception stay
ingest_messages_from_table_autocommit(st, gf, uid, db, table) ==
    IF table.rows = <<>> THEN [st |-> st, ingested |-> 0, emb |-> <<>>, failed |-> ""]
    ELSE LET closed(r) ==
                 IF r.failed # ""
                 THEN [st |-> r.st, ingested |-> 0, emb |-> <<>>, failed |-> r.failed]
                 ELSE r
         IN  closed(IngestMessageRows([st |-> st, ingested |-> 0, emb |-> <<>>, failed |-> ""],
                                      gf, uid, db, table, table.rows))

\* _ingest_messages_from_table: one ledger transaction; an exception closes the
\* connection without commit, the graph writes made so far stay
ingest_messages_from_table(st, gf, uid, db, table) ==
    IF table.rows = <<>> THEN [st |-> st, ingested |-> 0, emb |-> <<>>, failed |-> ""]
    ELSE LET closed(r) ==
                 IF r.failed # ""
                 THEN [st |-> [r.st EXCEPT !.messages = st.messages],
                       ingested |-> 0, emb |-> <<>>, failed |-> r.failed]
                 ELSE r
         IN  closed(IngestMessageRows([st |-> st, ingested |-> 0, emb |-> <<>>, failed |-> ""],
                                      gf, uid, db, table, table.rows))

RECURSIVE IngestMessageTables(_, _, _, _, _)
\* the loop over tables of ingest_messages_from_sqlite
IngestMessageTables(acc, gf, uid, db, tables) ==
    IF tables = <<>> \/ acc.failed # "" THEN acc
    ELSE IF ~looks_like_message_table(Head(tables).columns)
    THEN IngestMessageTables(acc, gf, uid, db, Tail(tables))
    ELSE LET add(r) == [st |-> r.st, ingested |-> acc.ingested + r.ingested,
                        emb |-> acc.emb \o r.emb, failed |-> r.failed]
         IN  IngestMessageTables(
                 add(ingest_messages_from_table(acc.st, gf, uid, db, Head(tables))),
                 gf, uid, db, Tail(tables))

\* ingest_messages_from_sqlite: [st, ingested, emb, failed]
ingest_messages_from_sqlite(st, gf, uid, db) ==
    IF ~IsSqlite(db)
    THEN [st |-> st, ingested |-> 0, emb |-> <<>>, failed |-> "DatabaseError"]
    ELSE
    IngestMessageTables([st |-> st, ingested |-> 0, emb |-> <<>>, failed |-> ""],
                        gf, uid, db, db.tables)

\* _compose_display_name(payload), without a middle name column
ComposeFromPayload(first, last) ==
    LET parts == (IF Truthy(first) THEN <<first>> ELSE <<>>)
                 \o (IF Truthy(last) THEN <<last>> ELSE <<>>)
    IN  IF parts = <<>> THEN None
        ELSE IF Len(parts) = 1 THEN parts[1]
        ELSE parts[1] \o <<" ">> \o parts[2]

RECURSIVE IngestContactRows(_, _, _, _, _, _)
\* the loop `for row in rows` of _ingest_contacts_from_table; acc is [st, ingested]
IngestContactRows(acc, gf, uid, db, table, rows) ==
    IF rows = <<>> THEN acc
    ELSE LET row == Head(rows)
             given_name == IF Truthy(row.first) THEN row.first ELSE None
             family_name == IF Truthy(row.last) THEN row.last ELSE None
             source == PathOf(uid, db.name)
             step(display_name) ==
                 LET new_row == [external_id |-> ExternalId(db, table, row),
                                 display_name |-> display_name, given_name |-> given_name,
                                 family_name |-> family_name, phone_number |-> row.phone,
                                 email |-> row.email, source |-> source]
                 IN  [st |-> register_contact_with_graph(
                                 [acc.st EXCEPT !.contacts = Append(@, new_row)],
                                 gf, display_name, given_name, family_name,
                                 row.phone, row.email, source),
                      ingested |-> acc.ingested + 1]
         IN  IngestContactRows(step(Or(row.name, ComposeFromPayload(row.first, row.last))),
                               gf, uid, db, table, Tail(rows))

RECURSIVE IngestContactTables(_, _, _, _, _)
\* ingest_contacts_from_sqlite: the loop over the tables of one database
IngestContactTables(acc, gf, uid, db, tables) ==
    IF tables = <<>> THEN acc
    ELSE IF ~looks_like_contact_table(Head(tables).columns)
              \/ Head(tables).rows = <<>>
    THEN IngestContactTables(acc, gf, uid, db, Tail(tables))
    ELSE IngestContactTables(
             IngestContactRows(acc, gf, uid, db, Head(tables), Head(tables).rows),
             gf, uid, db, Tail(tables))

\* ingest_contacts_from_sqlite: [st, ingested, failed]
ingest_contacts_from_sqlite(st, gf, uid, db) ==
    IF ~IsSqlite(db) THEN [st |-> st, ingested |-> 0, failed |-> "DatabaseError"]
    ELSE LET returned(r) == [st |-> r.st, ingested |-> r.ingested, failed |-> ""]
         IN  returned(IngestContactTables([st |-> st, ingested |-> 0], gf, uid, db, db.tables))

RECURSIVE IngestXmlContacts(_, _, _, _, _)
\* the loop `for contact_elem in root.findall(".//contact")`; acc is [st, count]
IngestXmlContacts(acc, gf, uid, xml, elems) ==
    IF elems = <<>> THEN acc
    ELSE LET e == Head(elems)
             source == PathOf(uid, xml.name)
             new_row == [external_id |-> xml.name \o ":" \o ToString(acc.count),
                         display_name |-> e.displayName, given_name |-> e.firstName,
                         family_name |-> e.lastName, phone_number |-> e.phone,
                         email |-> e.email, source |-> source]
             step(st) == [st |-> st, count |-> acc.count + 1]
         IN  IngestXmlContacts(
                 step(register_contact_with_graph(
                          [acc.st EXCEPT !.contacts = Append(@, new_row)],
                          gf, e.displayName, e.firstName, e.lastName,
                          e.phone, e.email, source)),
                 gf, uid, xml, Tail(elems))

\* ingest_contacts_from_xml: [st, ingested, failed]; ET.parse raises on a
\* file that is not well-formed, before the ledger is touched
ingest_contacts_from_xml(st, gf, uid, xml) ==
    IF ~xml.wellformed THEN [st |-> st, ingested |-> 0, failed |-> "ParseError"]
    ELSE LET returned(r) == [st |-> r.st, ingested |-> r.count, failed |-> ""]
         IN  returned(IngestXmlContacts([st |-> st, count |-> 0], gf, uid, xml, xml.contacts))

\* ingest_system_info_from_plist: [st, ingested, failed]; plistlib.load raises
\* on a file that is not a property list, before the ledger is touched
ingest_system_info_from_plist(st, uid, plist) ==
    IF ~plist.valid THEN [st |-> st, ingested |-> 0, failed |-> "InvalidFileException"]
    ELSE [st |-> [st EXCEPT !.system_info =
                     @ \o [i \in DOMAIN plist.items |->
                              [info_key |-> plist.items[i].key,
                               info_value |-> plist.items[i].value,
                               category |-> plist.stem,
                               source |-> PathOf(uid, plist.name)]]],
          ingested |-> Len(plist.items), failed |-> ""]

-----------------------------------------------------------------------------
(* services/ufdr_ingest.py: the images table.  A row is [file_path,        *)
(* relative_path, description, tags, detected_text, source, metadata,      *)
(* vector_id, caption_status, caption_error, last_captioned_at]; its id is *)
(* its index.  The metadata column holds JSON text: the sequence of the    *)
(* object's (key, value) pairs.                                            *)

MetadataKeys ==
    <<"file_path", "relative_path", "extraction_id", "size_bytes", "mime_type",
      "tags", "caption", "detected_text">>

\* json.dumps(metadata)
JsonDumps(m) ==
    LET keys == SelectSeq(MetadataKeys, LAMBDA k : k \in DOMAIN m)
    IN  [i \in 1..Len(keys) |-> <<keys[i], m[keys[i]]>>]

\* json.loads(text) if text else {}
JsonLoads(text) ==
    [k \in {text[i][1] : i \in DOMAIN text} |->
        text[CHOOSE i \in DOMAIN text : text[i][1] = k][2]]

\* what image_path.stat() can find: no file, or a file of some size
StatResults == {"missing", "1024", "2048"}

\* _build_image_metadata (modified_at and created_at go with size_bytes)
build_image_metadata(uid, rel, stat) ==
    LET base == [k \in {"file_path", "relative_path", "extraction_id", "mime_type"} |->
                    CASE k = "file_path" -> PathOf(uid, rel)
                      [] k = "relative_path" -> rel
                      [] k = "extraction_id" -> ToString(uid)
                      [] OTHER -> "image/jpeg"]
    IN  IF stat = "missing" THEN base ELSE Put(base, "size_bytes", stat)

\* str.lower() on a caption status
LowerStatus(status) ==
    CASE status \in {"DONE", "Done"} -> "done"
      [] status \in {"FAILED", "Failed"} -> "failed"
      [] status \in {"PENDING", "Pending"} -> "pending"
      [] OTHER -> status

\* existing_status != "done": the comparison without .lower()
ResetsToPendingCaseSensitive(existing_status) ==
    (IF existing_status = NULL THEN "" ELSE existing_status) # "done"

\* existing_status.lower() != "done", existing_status being caption_status or ""
ResetsToPending(existing_status) ==
    LowerStatus(IF existing_status = NULL THEN "" ELSE existing_status) # "done"

\* {**existing_metadata, **metadata} with the operands exchanged
MergeMetadataOldWins(existing_metadata, metadata) == Merge(metadata, existing_metadata)

\* merged_metadata = {**existing_metadata, **metadata}
MergeMetadata(existing_metadata, metadata) == Merge(existing_metadata, metadata)

RECURSIVE InventoryLoop(_, _, _, _)
\* the loop `for image_path in image_paths` of log_image_inventory; acc is
\* [images, processed, records, seen_paths], paths a sequence of [uid, rel]
InventoryLoop(acc, paths, extraction_uid, statOf) ==
    IF paths = <<>> THEN acc
    ELSE LET p == Head(paths)
             normalized_path == PathOf(p.uid, p.rel)
             relative_path == IF p.uid = extraction_uid THEN p.rel ELSE normalized_path
             metadata == build_image_metadata(p.uid, relative_path, statOf[p.rel])
             hit == {i \in DOMAIN acc.images : acc.images[i].file_path = normalized_path}
         IN  IF normalized_path \in acc.seen_paths
             THEN InventoryLoop(acc, Tail(paths), extraction_uid, statOf)
             ELSE IF hit = {}
             THEN \* INSERT OR IGNORE inserted the row
                  LET image_id == Len(acc.images) + 1
                      row == [file_path |-> normalized_path, relative_path |-> relative_path,
                              description |-> NULL, tags |-> NULL, detected_text |-> NULL,
                              source |-> "ufdr", metadata |-> JsonDumps(metadata),
                              vector_id |-> NULL, caption_status |-> "pending",
                              caption_error |-> NULL, last_captioned_at |-> NULL]
                  IN  InventoryLoop(
                          [images |-> Append(acc.images, row),
                           processed |-> acc.processed + 1,
                           records |-> Append(acc.records,
                                          [id |-> image_id, file_path |-> normalized_path,
                                           relative_path |-> relative_path,
                                           metadata |-> metadata]),
                           seen_paths |-> acc.seen_paths \cup {normalized_path}],
                          Tail(paths), extraction_uid, statOf)
             ELSE \* the file path is there already
                  LET image_id == CHOOSE i \in hit : TRUE
                      existing == acc.images[image_id]
                      merged_metadata == MergeMetadata(JsonLoads(existing.metadata), metadata)
                      reset == ResetsToPending(existing.caption_status)
                      row == [existing EXCEPT
                                !.relative_path = relative_path,
                                !.source = "ufdr",
                                !.metadata = JsonDumps(merged_metadata),
                                !.caption_status = IF reset THEN "pending" ELSE @]
                  IN  InventoryLoop(
                          [images |-> [acc.images EXCEPT ![image_id] = row],
                           processed |-> acc.processed + 1,
                           records |-> IF reset
                                       THEN Append(acc.records,
                                              [id |-> image_id, file_path |-> normalized_path,
                                               relative_path |-> relative_path,
                                               metadata |-> merged_metadata])
                                       ELSE acc.records,
                           seen_paths |-> acc.seen_paths \cup {normalized_path}],
                          Tail(paths), extraction_uid, statOf)

\* log_image_inventory: [images, processed, records]
log_image_inventory(imgs, paths, extraction_uid, statOf) ==
    LET returned(r) == [images |-> r.images, processed |-> r.processed, records |-> r.records]
    IN  returned(InventoryLoop([images |-> imgs, processed |-> 0, records |-> <<>>,
                                seen_paths |-> {}], paths, extraction_uid, statOf))

\* what describe_image returns for a file when the vision call succeeds
VisionDescription(file_path, rel) ==
    IF rel = "a.jpg"
    THEN [caption |-> "a cat", tags |-> <<"pet", "cat">>, detected_text |-> NULL]
    ELSE [caption |-> "a note", tags |-> <<>>, detected_text |-> "hi"]

RECURSIVE JoinComma(_)
\* ", ".join(tags)
JoinComma(tags) ==
    IF tags = <<>> THEN ""
    ELSE IF Len(tags) = 1 THEN tags[1]
    ELSE tags[1] \o ", " \o JoinComma(Tail(tags))

\* "\n".join(embedding_text_parts)
EmbeddingText(d) ==
    d.caption
    \o (IF d.tags # <<>> THEN "\nTags: " \o JoinComma(d.tags) ELSE "")
    \o (IF d.detected_text # NULL THEN "\nDetected text: " \o d.detected_text ELSE "")

\* str(exc) of the exception a failed vision call raised, as [text, len]:
\* what it says and how many characters it has
VisionErrorText(outcome) ==
    IF outcome = "fail_long"
    THEN [text |-> "Gemini Vision request failed: <a response of 570 characters>",
          len |-> 600]
    ELSE [text |-> "Gemini Vision request failed: timeout", len |-> 37]

\* str(exc) stored whole
StrWhole(s) == s

\* str(exc)[:512]
Slice512(s) ==
    IF s.len <= 512 THEN s ELSE [text |-> s.text \o "[:512]", len |-> 512]

\* vector_id = f"img:{record.relative_path}"
ImageVectorIdByPath(record) == "img:" \o record.relative_path

\* vector_id = f"img:{record.id}"
ImageVectorId(record) == "img:" \o ToString(record.id)

RECURSIVE CaptionLoop(_, _, _, _)
\* the loop `for record in records` of describe_and_index_images; acc is
\* [images, successes, emb, calls, errors]; vr[rel] says whether the vision
\* call for that file succeeds; calls lists the records describe_image was
\* called for, errors the length of each caption_error written
CaptionLoop(acc, records, vr, now) ==
    IF records = <<>> THEN acc
    ELSE LET record == Head(records)
             rel == record.relative_path
             d == VisionDescription(record.file_path, rel)
             vector_id == ImageVectorId(record)
             with_caption == Put(Put(record.metadata, "tags", d.tags), "caption", d.caption)
             metadata_update ==
                 IF d.detected_text # NULL
                 THEN Put(with_caption, "detected_text", d.detected_text)
                 ELSE with_caption
             done_row == [acc.images[record.id] EXCEPT
                            !.description = d.caption,
                            !.tags = IF d.tags # <<>> THEN JoinComma(d.tags) ELSE NULL,
                            !.detected_text = d.detected_text,
                            !.vector_id = vector_id,
                            !.caption_status = "done",
                            !.caption_error = NULL,
                            !.last_captioned_at = now,
                            !.metadata = JsonDumps(metadata_update)]
             failed_row == [acc.images[record.id] EXCEPT
                            !.caption_status = "failed",
                            !.caption_error = Slice512(VisionErrorText(vr[rel])).text,
                            !.last_captioned_at = now]
             embedding_metadata ==
                 [type |-> "image", image_id |-> ToString(record.id),
                  relative_path |-> rel, source |-> "ufdr",
                  caption_source |-> "gemini_vision", caption |-> d.caption]
             rec == [vector_id |-> vector_id, text |-> EmbeddingText(d),
                     metadata |-> IF d.tags # <<>>
                                  THEN Put(embedding_metadata, "tags", JoinComma(d.tags))
                                  ELSE embedding_metadata]
         IN  CaptionLoop(
                 IF vr[rel] = "ok"
                 THEN [images |-> [acc.images EXCEPT ![record.id] = done_row],
                       successes |-> acc.successes + 1,
                       emb |-> Append(acc.emb, rec),
                       calls |-> Append(acc.calls, record.id),
                       errors |-> acc.errors]
                 ELSE [images |-> [acc.images EXCEPT ![record.id] = failed_row],
                       successes |-> acc.successes,
                       emb |-> acc.emb,
                       calls |-> Append(acc.calls, record.id),
                       errors |-> Append(acc.errors,
                                     [id |-> record.id,
                                      len |-> Slice512(VisionErrorText(vr[rel])).len])],
                 Tail(records), vr, now)

\* describe_and_index_images with an UPDATE that does not set vector_id
describe_and_index_images_unstamped(imgs, records, vr, now) ==
    IF ~cfg.vision
    THEN [images |-> imgs, successes |-> 0, emb |-> <<>>, calls |-> <<>>,
          errors |-> <<>>, failed |-> "RuntimeError"]
    ELSE LET returned(r) ==
                 [images |-> [i \in DOMAIN r.images |->
                                 IF i \in {records[j].id : j \in DOMAIN records}
                                 THEN [r.images[i] EXCEPT !.vector_id = NULL]
                                 ELSE r.images[i]],
                  successes |-> r.successes, emb |-> r.emb,
                  calls |-> r.calls, errors |-> r.errors, failed |-> ""]
         IN  returned(CaptionLoop([images |-> imgs, successes |-> 0, emb |-> <<>>,
                                   calls |-> <<>>, errors |-> <<>>],
                                  records, vr, now))

\* describe_and_index_images: [images, successes, emb, calls, errors, failed];
\* get_gemini_vision_client() raises RuntimeError when no API key is
\* configured, before the loop and before the ledger is opened
describe_and_index_images(imgs, records, vr, now) ==
    IF ~cfg.vision
    THEN [images |-> imgs, successes |-> 0, emb |-> <<>>, calls |-> <<>>,
          errors |-> <<>>, failed |-> "RuntimeError"]
    ELSE LET returned(r) ==
                 [images |-> r.images, successes |-> r.successes, emb |-> r.emb,
                  calls |-> r.calls, errors |-> r.errors, failed |-> ""]
         IN  returned(CaptionLoop([images |-> imgs, successes |-> 0, emb |-> <<>>,
                                   calls |-> <<>>, errors |-> <<>>],
                                  records, vr, now))

RECURSIVE UpsertAll(_, _)
\* VECTOR_STORE.upsert(ids, embeddings, metadatas, documents)
UpsertAll(store, records) ==
    IF records = <<>> THEN store
    ELSE UpsertAll(Put(store, Head(records).vector_id,
                       [text |-> Head(records).text, metadata |-> Head(records).metadata]),
                   Tail(records))

-----------------------------------------------------------------------------
(* services/ufdr_ingest.py: ingest_ufdr_archive.                           *)

RECURSIVE MessageDbLoopStopsAtFailure(_, _, _, _)
\* `for database_path in sources.message_dbs` with the try around the loop:
\* the first database that raises ends the loop
MessageDbLoopStopsAtFailure(acc, gf, uid, dbs) ==
    IF dbs = <<>> THEN acc
    ELSE LET db == Head(dbs)
             add(r) ==
                 IF r.failed = ""
                 THEN MessageDbLoopStopsAtFailure(
                          [st |-> r.st, ingested |-> acc.ingested + r.ingested,
                           emb |-> acc.emb \o r.emb,
                           notes |-> Append(acc.notes, "Parsed " \o ToString(r.ingested)
                                                       \o " messages from " \o db.name)],
                          gf, uid, Tail(dbs))
                 ELSE [st |-> r.st, ingested |-> acc.ingested, emb |-> acc.emb,
                       notes |-> Append(acc.notes, "Failed parsing messages from "
                                                   \o db.name \o ": " \o r.failed)]
         IN  add(ingest_messages_from_sqlite(acc.st, gf, uid, db))

RECURSIVE MessageDbLoop(_, _, _, _)
\* `for database_path in sources.message_dbs`; acc is [st, ingested, emb, notes]
MessageDbLoop(acc, gf, uid, dbs) ==
    IF dbs = <<>> THEN acc
    ELSE LET db == Head(dbs)
             add(r) ==
                 IF r.failed = ""
                 THEN [st |-> r.st, ingested |-> acc.ingested + r.ingested,
                       emb |-> acc.emb \o r.emb,
                       notes |-> Append(acc.notes, "Parsed " \o ToString(r.ingested)
                                                   \o " messages from " \o db.name)]
                 ELSE [st |-> r.st, ingested |-> acc.ingested, emb |-> acc.emb,
                       notes |-> Append(acc.notes, "Failed parsing messages from "
                                                   \o db.name \o ": " \o r.failed)]
         IN  MessageDbLoop(add(ingest_messages_from_sqlite(acc.st, gf, uid, db)),
                           gf, uid, Tail(dbs))

RECURSIVE ContactDbLoop(_, _, _, _)
\* `for database_path in sources.contact_dbs`; acc is [st, ingested, notes]
ContactDbLoop(acc, gf, uid, dbs) ==
    IF dbs = <<>> THEN acc
    ELSE LET db == Head(dbs)
             add(r) ==
                 IF r.failed = ""
                 THEN [st |-> r.st, ingested |-> acc.ingested + r.ingested,
                       notes |-> Append(acc.notes, "Parsed " \o ToString(r.ingested)
                                                   \o " contacts from " \o db.name)]
                 ELSE [st |-> r.st, ingested |-> acc.ingested,
                       notes |-> Append(acc.notes, "Failed parsing contacts from "
                                                   \o db.name \o ": " \o r.failed)]
         IN  ContactDbLoop(add(ingest_contacts_from_sqlite(acc.st, gf, uid, db)),
                           gf, uid, Tail(dbs))

RECURSIVE ContactXmlLoop(_, _, _, _)
\* `for xml_path in sources.contact_xml_files`; acc is [st, ingested, notes]
ContactXmlLoop(acc, gf, uid, xmls) ==
    IF xmls = <<>> THEN acc
    ELSE LET xml == Head(xmls)
             add(r) ==
                 IF r.failed = ""
                 THEN [st |-> r.st, ingested |-> acc.ingested + r.ingested,
                       notes |-> Append(acc.notes, "Parsed " \o ToString(r.ingested)
                                                   \o " contacts from " \o xml.name)]
                 ELSE [st |-> r.st, ingested |-> acc.ingested,
                       notes |-> Append(acc.notes, "Failed parsing contacts XML "
                                                   \o xml.name \o ": " \o r.failed)]
         IN  ContactXmlLoop(add(ingest_contacts_from_xml(acc.st, gf, uid, xml)),
                            gf, uid, Tail(xmls))

RECURSIVE PlistLoop(_, _, _)
\* `for plist_path in sources.system_plists`; acc is [st, ingested, notes,
\* system_records], ingested being contacts_ingested
PlistLoop(acc, uid, plists) ==
    IF plists = <<>> THEN acc
    ELSE LET plist == Head(plists)
             add(r) ==
                 IF r.failed = ""
                 THEN [acc EXCEPT !.st = r.st,
                                  !.system_records = @ + r.ingested,
                                  !.notes = Append(@, "Parsed " \o ToString(r.ingested)
                                                      \o " system records from " \o plist.name)]
                 ELSE [acc EXCEPT !.st = r.st,
                                  !.notes = Append(@, "Failed parsing system plist "
                                                      \o plist.name \o ": " \o r.failed)]
         IN  PlistLoop(add(ingest_system_info_from_plist(acc.st, uid, plist)),
                       uid, Tail(plists))

\* sources.image_files of the extraction of archive a made by upload uid
ImageFiles(a, uid) ==
    [i \in DOMAIN ArchiveMembers(a).images |-> [uid |-> uid, rel |-> ArchiveMembers(a).images[i]]]

\* a freshly extracted file: stat() finds it, with the size the archive gives it
FreshStat(a) == [rel \in {ArchiveMembers(a).images[i] : i \in DOMAIN ArchiveMembers(a).images} |-> "1024"]

\* what the embedding model and the vector store can do with one batch
EmbeddingOutcomes == {"ok", "RuntimeError", "OtherError"}

\* ingest_ufdr_archive after persist_upload gave extraction directory uid:
\* the state it leaves and what it returns.  gf: the graph transactions that
\* fail; vr: the outcome of the vision call per image; eo: the outcome of
\* _index_embeddings.  m, c, inv and cap are what the message databases, the
\* contact databases, the image inventory and the captioning gave
\* When raised is TRUE the exception leaves the function: summary is then
\* what the run had gathered, and nothing is returned.
ingest_ufdr_archive(a, uid, gf, vr, eo) ==
    LET message_dbs == DiscoverMessageDbs(a)
        contact_dbs == DiscoverContactDbs(a)
        st0 == [messages |-> messages, contacts |-> contacts, images |-> images,
                system_info |-> system_info,
                persons |-> persons, rels |-> rels, alias |-> EmptyDict,
                stats |-> NewGraphStats, calls |-> 0, sent |-> <<>>]
        notes0 == IF message_dbs = <<>> /\ contact_dbs = <<>>
                  THEN <<"No obvious message or contact databases were discovered">>
                  ELSE <<>>
        finish(m, c, inv, cap) ==
            LET combined_records == m.emb \o cap.emb
                indexed == cfg.vector /\ combined_records # <<>> /\ eo = "ok"
                \* `except RuntimeError` lets every other exception out
                raised == cfg.vector /\ combined_records # <<>> /\ eo = "OtherError"
                image_notes ==
                    (IF inv.processed # 0
                     THEN <<"Logged " \o ToString(inv.processed) \o " image references">>
                     ELSE <<>>)
                    \o (IF inv.records = <<>> THEN <<>>
                        ELSE IF cap.failed # ""
                        THEN <<"Image captioning failed: " \o cap.failed>>
                        ELSE IF cap.successes # 0
                        THEN <<"Generated captions for " \o ToString(cap.successes) \o " images">>
                        ELSE <<"No image captions generated across "
                               \o ToString(Len(inv.records)) \o " attempts">>)
                vector_note ==
                    IF ~cfg.vector THEN "Vector store disabled"
                    ELSE IF combined_records = <<>>
                    THEN "Vector store enabled but no content suitable for embeddings was found"
                    ELSE IF eo = "ok"
                    THEN "Stored embeddings for " \o ToString(Len(m.emb))
                         \o " messages and " \o ToString(Len(cap.emb)) \o " images"
                    ELSE "Vector store indexing failed"
                graph_note ==
                    IF ~cfg.graph THEN "Neo4j integration skipped"
                    ELSE IF c.st.stats.contacts_registered # 0
                            \/ c.st.stats.relationships_registered # 0
                    THEN "Neo4j graph updated ("
                         \o ToString(c.st.stats.contacts_registered) \o " contacts, "
                         \o ToString(c.st.stats.relationships_registered) \o " message links)"
                    ELSE "Neo4j graph integration enabled; no new contacts or message links were added"
            IN  [messages |-> c.st.messages, contacts |-> c.st.contacts, images |-> cap.images,
                 system_info |-> c.st.system_info,
                 persons |-> c.st.persons, rels |-> c.st.rels, alias |-> c.st.alias,
                 vectors |-> IF indexed THEN UpsertAll(vectors, combined_records) ELSE vectors,
                 raised |-> raised,
                 summary |-> [extraction_id |-> uid,
                              notes |-> c.notes \o image_notes
                                        \o (IF raised THEN <<>>
                                            ELSE <<vector_note, graph_note>>),
                              messages_ingested |-> m.ingested,
                              contacts_ingested |-> c.ingested,
                              system_records_ingested |-> c.system_records,
                              images_logged |-> inv.processed,
                              images_captioned |-> cap.successes],
                 queued |-> [i \in DOMAIN inv.records |-> inv.records[i].id],
                 batch |-> IF cfg.vector
                           THEN [i \in DOMAIN combined_records |-> combined_records[i].vector_id]
                           ELSE <<>>,
                 vision |-> cap.calls,
                 errors |-> cap.errors,
                 emitted |-> [i \in DOMAIN cap.emb |-> cap.emb[i].vector_id],
                 sent |-> c.st.sent,
                 stats |-> c.st.stats]
        captioned(m, c, inv) ==
            finish(m, c, inv,
                   IF inv.records # <<>>
                   THEN describe_and_index_images(inv.images, inv.records, vr, ToString(uid))
                   ELSE [images |-> inv.images, successes |-> 0, emb |-> <<>>, calls |-> <<>>,
                         errors |-> <<>>, failed |-> ""])
        inventoried(m, c) ==
            captioned(m, c,
                      IF ImageFiles(a, uid) = <<>>
                      THEN [images |-> c.st.images, processed |-> 0, records |-> <<>>]
                      ELSE log_image_inventory(c.st.images, ImageFiles(a, uid), uid, FreshStat(a)))
        listed(m, x) ==
            inventoried(m, PlistLoop([st |-> x.st, ingested |-> x.ingested, notes |-> x.notes,
                                      system_records |-> 0], uid, DiscoverPlists(a)))
        registered(m, c) ==
            listed(m, ContactXmlLoop(c, gf, uid, DiscoverContactXml(a)))
        parsed(m) ==
            registered(m, ContactDbLoop([st |-> m.st, ingested |-> 0, notes |-> m.notes],
                                        gf, uid, contact_dbs))
    IN  parsed(MessageDbLoop([st |-> st0, ingested |-> 0, emb |-> <<>>, notes |-> notes0],
                             gf, uid, message_dbs))

-----------------------------------------------------------------------------
(* The ledger, the stores and the settings before the first request.       *)

\* config.py: neo4j_enabled = False, vector_store_enabled = True,
\* gemini_api_key = None
DefaultSettings == [graph |-> FALSE, vector |-> TRUE, vision |-> FALSE]

NoRun == [op |-> "none"]

LedgerEmpty ==
    /\ uploads = 0
    /\ images = <<>>
    /\ messages = <<>>
    /\ contacts = <<>>
    /\ system_info = <<>>
    /\ vectors = EmptyDict
    /\ persons = {}
    /\ rels = {}
    /\ aliasMap = EmptyDict
    /\ run = NoRun
    /\ extracted = <<>>

FnIdle == fnIn = None /\ fnOut = None /\ fnPc = "idle"

-----------------------------------------------------------------------------
(* Specification Spec: uploads of archives to POST /upload.  uuid4 gives   *)
(* each upload an extraction directory no earlier upload had: the number   *)
(* of the upload.  run records the last request: what it was given, what   *)
(* it returned, and the ledger, graph and vector store it started from;    *)
(* extracted[uid] records what upload uid was.                             *)

MaxUploads == 2

MaxGraphFailures == 1

\* what a call of describe_image can do: return a description, or raise an
\* exception with a short or with a long message
VisionOutcomes == {"ok", "fail", "fail_long"}

\* the write transactions to the graph store a run of the model can make
GraphCalls == 1..4

GraphFailureSets == {g \in SUBSET GraphCalls : Cardinality(g) <= MaxGraphFailures}

ImageRels(a) == {ArchiveMembers(a).images[i] : i \in DOMAIN ArchiveMembers(a).images}

Snapshot ==
    [messages |-> messages, contacts |-> contacts, images |-> images,
     persons |-> persons, rels |-> rels, vectors |-> vectors,
     system_info |-> system_info]

Init ==
    /\ LedgerEmpty
    /\ cfg \in [graph : BOOLEAN, vector : BOOLEAN, vision : BOOLEAN]
    /\ FnIdle

\* ingest_ufdr_archive on a file that cannot be extracted: persist_upload has
\* stored it under a new extraction id; BadZipFile becomes HTTPException 400,
\* any other exception leaves the function as it is (status 500)
RejectArchive(a) ==
    \E err \in ExtractionErrors :
        /\ uploads' = uploads + 1
        /\ run' = [op |-> "rejected", archive |-> a, uid |-> uploads + 1,
                   raised |-> TRUE, error |-> err,
                   status_code |-> IF err = "BadZipFile" THEN 400 ELSE 500,
                   before |-> Snapshot]
        /\ extracted' = Append(extracted, [archive |-> a, gf |-> {}, vr |-> <<>>,
                                           eo |-> "ok", raised |-> TRUE])
        /\ UNCHANGED <<images, messages, contacts, system_info, vectors, persons, rels,
                       aliasMap>>

\* ingest_ufdr_archive on an archive that persist_upload stored and zipfile
\* extracted
IngestExtracted(a) ==
       \E gf \in GraphFailureSets, vr \in [ImageRels(a) -> VisionOutcomes],
          eo \in EmbeddingOutcomes :
          /\ cfg.graph \/ gf = {}
          /\ cfg.vector \/ eo = "ok"
          /\ cfg.vision \/ \A rel \in ImageRels(a) : vr[rel] = "ok"
          /\ LET uid == uploads + 1
                 respond(r) ==
                     /\ uploads' = uid
                     /\ messages' = r.messages
                     /\ contacts' = r.contacts
                     /\ system_info' = r.system_info
                     /\ images' = r.images
                     /\ persons' = r.persons
                     /\ rels' = r.rels
                     /\ aliasMap' = r.alias
                     /\ vectors' = r.vectors
                     /\ run' = [op |-> "ingest", archive |-> a, uid |-> uid,
                                gf |-> gf, vr |-> vr, eo |-> eo,
                                raised |-> r.raised, summary |-> r.summary,
                                queued |-> r.queued, vision |-> r.vision,
                                batch |-> r.batch, errors |-> r.errors,
                                emitted |-> r.emitted, sent |-> r.sent,
                                stats |-> r.stats, before |-> Snapshot]
                     /\ extracted' = Append(extracted, [archive |-> a, gf |-> gf, vr |-> vr,
                                                        eo |-> eo, raised |-> r.raised])
             IN  respond(ingest_ufdr_archive(a, uid, gf, vr, eo))

\* POST /upload with archive a
Ingest(a) ==
    /\ uploads < MaxUploads
    /\ IF IsZip(a) THEN IngestExtracted(a) ELSE RejectArchive(a)
    /\ UNCHANGED <<cfg, fnVars>>

Next == \E a \in Archives \cup CorruptArchives : Ingest(a)

Spec == Init /\ [][Next]_vars

\* the last request ingested the archive the upload before it ingested
Reingest ==
    /\ run.op = "ingest"
    /\ run.uid > 1
    /\ extracted[run.uid - 1].archive = run.archive

\* the entries of a vector store that describe images
ImageEntries(store) == {k \in DOMAIN store : "image_id" \in DOMAIN store[k].metadata}

\* the rows of table rows past the first n
RowsAfter(rows, n) == [i \in 1..(Len(rows) - n) |-> rows[n + i]]

Range(f) == {f[i] : i \in DOMAIN f}

\* C1: after a second ingestion of the same archive the images table has as
\* many rows, and the vector store as many image entries, as after the first.
C1_ReingestKeepsImageCounts ==
    Reingest =>
        /\ Len(images) = Len(run.before.images)
        /\ Cardinality(ImageEntries(vectors)) = Cardinality(ImageEntries(run.before.vectors))

\* the rows of table imgs that upload uid inserted for file rel
ImageRowsOf(imgs, uid, rel) == {i \in DOMAIN imgs : imgs[i].file_path = PathOf(uid, rel)}

\* C2: when an archive is uploaded again, every image whose caption attempt
\* failed in the upload before is queued for captioning again, and the vision
\* call is made for no image that the upload before left done.
C2_ReuploadRequeuesFailedOnly ==
    Reingest =>
        \A rel \in ImageRels(run.archive) :
            \A i \in ImageRowsOf(run.before.images, run.uid - 1, rel) :
                /\ run.before.images[i].caption_status = "failed"
                       => i \in Range(run.queued)
                /\ run.before.images[i].caption_status = "done"
                       => \A j \in Range(run.vision) : images[j].relative_path # rel

PersonIds(P) == {p.id : p \in P}

IdOfNode(P, n) == (CHOOSE p \in P : p.node = n).id

\* the (sender, receiver, messageId) keys of the MESSAGED relationships
EdgeKeys(P, R) == {<<IdOfNode(P, r.from), IdOfNode(P, r.to), r.message_id>> : r \in R}

\* C3: no two Person nodes share a canonical id and no two MESSAGED
\* relationships share (sender, receiver, messageId); and ingesting again an
\* archive whose earlier ingestion registered every person and message leaves
\* the set of Person ids and the set of relationship keys as they were.
C3_GraphMergeIdempotent ==
    /\ \A p, q \in persons : p.id = q.id => p = q
    /\ \A r, s \in rels :
           (r.from = s.from /\ r.to = s.to /\ r.message_id = s.message_id) => r = s
    /\ (Reingest /\ cfg.graph /\ extracted[run.uid - 1].gf = {})
           => /\ PersonIds(persons) = PersonIds(run.before.persons)
              /\ EdgeKeys(persons, rels) = EdgeKeys(run.before.persons, run.before.rels)

C3_Witness ==
    /\ Reingest /\ cfg.graph
    /\ extracted[run.uid - 1].gf = {} /\ run.gf = {}
    /\ run.stats.relationships_registered > 0
    /\ run.stats.contacts_registered > 0
    /\ rels # {}

\* the message rows of archive a, in the order ingestion reads them
RECURSIVE ConcatRows(_)
ConcatRows(tables) ==
    IF tables = <<>> THEN <<>> ELSE Head(tables).rows \o ConcatRows(Tail(tables))

RECURSIVE ConcatTables(_)
ConcatTables(dbs) ==
    IF dbs = <<>> THEN <<>>
    ELSE (IF IsSqlite(Head(dbs)) THEN ConcatRows(Head(dbs).tables) ELSE <<>>)
         \o ConcatTables(Tail(dbs))

ArchiveMessages(a) == ConcatTables(DiscoverMessageDbs(a))

\* C4 as stated: ingesting an archive again adds a ledger row for those of
\* its messages that have no body, one each, and for no message that has one.
C4_NoNewRowForBodied ==
    Reingest =>
        LET added == RowsAfter(messages, Len(run.before.messages))
            bodiless == SelectSeq(ArchiveMessages(run.archive), LAMBDA m : m.body = None)
        IN  /\ Len(added) = Len(bodiless)
            /\ \A i \in DOMAIN added : added[i].body = None

\* C4: ingesting an archive again adds a ledger row for those of its messages
\* whose body is absent or has no non-whitespace character, one each and in
\* order, and for no message whose body has a non-whitespace character.
C4_NoNewRowForNonBlankBody ==
    Reingest =>
        LET added == RowsAfter(messages, Len(run.before.messages))
            blank == SelectSeq(ArchiveMessages(run.archive),
                               LAMBDA m : m.body = None \/ Strip(m.body) = <<>>)
        IN  /\ Len(added) = Len(blank)
            /\ \A i \in DOMAIN added :
                   /\ added[i].body = blank[i].body
                   /\ added[i].vector_id = NULL
                   /\ added[i].external_id = "sms.db:message:" \o ToString(blank[i].rowid)
            /\ run.summary.messages_ingested = Len(blank)

C4_Witness ==
    /\ Reingest
    /\ run.archive = "A"
    /\ Len(messages) = Len(run.before.messages) + 2
    /\ \E i \in DOMAIN run.before.messages : run.before.messages[i].vector_id # NULL

-----------------------------------------------------------------------------
(* Specification SpecTimestamp: _safe_parse_timestamp applied to texts     *)
(* drawn from TsInputs.                                                    *)

\* whole seconds, scale 1
TsSeconds == {-86401, -1, 0, 1, 86399, 700000000, 978307199, 978307200,
              978307201, 1700000000, 2147483647}

\* thousands, scale 1000: the text is a count of sec*1000 + ms
TsThousands == {1000000000, 1700000000, 253402300, 253402301, 978307, 900000}

TsMillis == {0, 1, 123, 200, 201, 799, 800}

\* sign * 10^exp with exp >= 15: every one of them is beyond year 9999
TsExponents == {15, 16, 17, 18, 19, 20, 21, 22, 300}

TsIsoTexts ==
    {[k |-> "iso", y |-> 2024, mo |-> mo, d |-> d, h |-> 0, mi |-> 0, s |-> 0,
      tz |-> z[1], off |-> z[2]] :
        mo \in {1, 2, 13}, d \in {1, 29, 30}, z \in {<<FALSE, 0>>, <<TRUE, 0>>, <<TRUE, 330>>}}

TsInputs ==
    {[k |-> "none"], [k |-> "nan"], [k |-> "text", t |-> "not-a-date"], [k |-> "text", t |-> ""]}
    \cup {[k |-> "num", scale |-> 1, sec |-> x, ms |-> m] : x \in TsSeconds, m \in {0, 123}}
    \cup {[k |-> "num", scale |-> 1000, sec |-> x, ms |-> m] : x \in TsThousands, m \in TsMillis}
    \cup {[k |-> "mag", sign |-> g, exp |-> e] : g \in {1, -1}, e \in TsExponents}
    \cup {[k |-> "inf", sign |-> g] : g \in {1, -1}}
    \cup TsIsoTexts

InitTimestamp ==
    /\ LedgerEmpty /\ cfg = DefaultSettings
    /\ fnIn \in TsInputs /\ fnOut = [k |-> "none"] /\ fnPc = "call"

CallSafeParseTimestamp ==
    /\ fnPc = "call"
    /\ fnOut' = safe_parse_timestamp(fnIn)
    /\ fnPc' = "done"
    /\ UNCHANGED <<fnIn, ledgerVars>>

NextTimestamp == CallSafeParseTimestamp

SpecTimestamp == InitTimestamp /\ [][NextTimestamp]_vars

\* the day number, counted from 1970-01-01, of a proleptic Gregorian date
DaysFromCivil(y0, m, d) ==
    LET y == IF m <= 2 THEN y0 - 1 ELSE y0
        era == y \div 400
        yoe == y - era * 400
        doy == ((153 * (IF m > 2 THEN m - 3 ELSE m + 9) + 2) \div 5) + d - 1
        doe == yoe * 365 + (yoe \div 4) - (yoe \div 100) + doy
    IN  era * 146097 + doe - 719468

\* the Unix epoch second of an ISO instant of the years 1902..2037
EpochSecond(t) ==
    DaysFromCivil(t.y, t.mo, t.d) * 86400 + t.h * 3600 + t.mi * 60 + t.s - t.off * 60

\* C5 (as claimed): a numeric text that counts seconds since 2001-01-01, such
\* as 700000000, is returned as the UTC instant whose Unix epoch second is the
\* value plus 978307200.
C5_AppleSecondsPlusOffset ==
    (/\ fnPc = "done" /\ fnIn.k = "num" /\ fnIn.scale = 1 /\ fnIn.ms = 0
     /\ fnIn.sec >= 1 /\ fnIn.sec <= 1000000000)
    => /\ fnOut.k = "iso" /\ fnOut.off = 0 /\ fnOut.us = 0
       /\ fnOut.y \in 1902..2037
       /\ EpochSecond(fnOut) = fnIn.sec + APPLE_EPOCH_OFFSET

\* C6 (as claimed): no exception leaves _safe_parse_timestamp; None gives None;
\* a text that is neither a number nor ISO-8601 is returned unchanged; a number
\* outside the representable date range is returned as the original text.
C6_NeverRaises ==
    fnPc = "done" =>
       /\ fnOut.k # "raise"
       /\ (fnIn.k = "none" => fnOut = [k |-> "none"])
       /\ ((~IsNumeric(fnIn) /\ fnIn.k # "none" /\ ~IsIsoText(fnIn))
              => fnOut = [k |-> "raw", of |-> fnIn])
       /\ (fnIn.k \in {"mag", "inf", "nan"} => fnOut = [k |-> "raw", of |-> fnIn])

\* a decimal text n reads as more than 1e12
Above1e12(n) == n.scale = 1000 /\ (n.sec > 1000000000 \/ (n.sec = 1000000000 /\ n.ms > 0))

\* the decimal texts for which the seconds after both steps fit 32 bits
TsInRange(n) == n.scale = 1 \/ Above1e12(n) \/ n.sec <= 2000000

\* the whole seconds of decimal text n after the division by 1000, if any
SecondsAfterDivision(n) ==
    IF n.scale = 1 \/ Above1e12(n) THEN n.sec ELSE n.sec * 1000 + n.ms

\* the milliseconds of decimal text n after the division by 1000, if any
MillisAfterDivision(n) == IF n.scale = 1 \/ Above1e12(n) THEN n.ms ELSE 0

\* the whole seconds after the subtraction of the offset, if any
SecondsAfterOffset(n) ==
    IF SecondsAfterDivision(n) > 978307200
       \/ (SecondsAfterDivision(n) = 978307200 /\ MillisAfterDivision(n) > 0)
    THEN SecondsAfterDivision(n) - 978307200
    ELSE SecondsAfterDivision(n)

\* C30: for a numeric text, a value greater than 1e12 is divided by 1000, then
\* a result greater than 978307200 has 978307200 subtracted, and the result is
\* rendered as the UTC ISO-8601 instant of that Unix epoch second; a value of
\* exactly 1e12 is not divided and a result of exactly 978307200 is kept.
C30_DivideThenSubtractThenRender ==
    (fnPc = "done" /\ fnIn.k = "num") =>
        /\ TsInRange(fnIn) =>
              /\ fnOut.k = "iso" /\ fnOut.off = 0
              /\ fnOut.y \in 1902..2038
              /\ EpochSecond(fnOut) = SecondsAfterOffset(fnIn)
              /\ fnOut.us = MillisAfterDivision(fnIn) * 1000
        /\ (fnIn.scale = 1000 /\ fnIn.sec = 1000000000 /\ fnIn.ms = 0) => fnOut.k # "iso"

\* 1700000000123 is divided to 1700000000.123, loses the offset and is
\* rendered as 1992-11-13T22:13:20.123+00:00
C30_Witness ==
    /\ fnPc = "done"
    /\ fnIn = [k |-> "num", scale |-> 1000, sec |-> 1700000000, ms |-> 123]
    /\ fnOut = [k |-> "iso", y |-> 1992, mo |-> 11, d |-> 13, h |-> 22, mi |-> 13, s |-> 20,
                us |-> 123000, off |-> 0]

-----------------------------------------------------------------------------
(* Specification SpecCanon: canonicalize_actor applied to texts drawn      *)
(* from CanonInputs.                                                       *)

MaxCoreLen == 3

CanonAlphabet == {"+", "1", "@", "A", "b", " ", "-"}

CanonCores == UNION {[1..n -> CanonAlphabet] : n \in 0..MaxCoreLen}

CanonPrefixes == {<<>>, <<"t", "e", "l", ":">>, <<"T", "e", "L", ":">>, <<"t", "e", "l">>}

CanonPads == {<<>>, <<" ">>}

ExampleTel ==
    <<"t", "e", "l", ":", "+", "1", " ", "(", "5", "5", "5", ")", " ",
      "1", "2", "3", "-", "0", "0", "0", "1">>

ExampleEmail ==
    <<"J", "a", "n", "e", "@", "E", "x", "a", "m", "p", "l", "e", ".", "c", "o", "m">>

CanonInputs ==
    {None, ExampleTel, ExampleEmail}
    \cup {lead \o pre \o core : lead \in CanonPads, pre \in CanonPrefixes, core \in CanonCores}

InitCanon ==
    /\ LedgerEmpty /\ cfg = DefaultSettings
    /\ fnIn \in CanonInputs /\ fnOut = None /\ fnPc = "call"

CallCanonicalizeActor ==
    /\ fnPc = "call"
    /\ fnOut' = canonicalize_actor(fnIn)
    /\ fnPc' = "done"
    /\ UNCHANGED <<fnIn, ledgerVars>>

NextCanon == CallCanonicalizeActor

SpecCanon == InitCanon /\ [][NextCanon]_vars
\* the text left after trimming and removing a leading tel: (any case)
CanonRemainder(value) ==
    LET t == Strip(value) IN
    IF StartsWith(Lower(t), TelPrefix) THEN SubSeq(t, 5, Len(t)) ELSE t

ExampleTelCanonical == <<"+", "1", "5", "5", "5", "1", "2", "3", "0", "0", "0", "1">>

ExampleEmailCanonical ==
    <<"j", "a", "n", "e", "@", "e", "x", "a", "m", "p", "l", "e", ".", "c", "o", "m">>

\* C7 (as claimed): None for absent or blank input; the lowercased remainder
\* when the remainder contains @; otherwise the digits, prefixed with + exactly
\* when the trimmed original began with +; the lowercased trimmed value when
\* there is neither a digit nor an @.
C7_PlusFromTrimmedOriginal ==
    fnPc = "done" =>
       LET t == Strip(fnIn)
           r == CanonRemainder(fnIn)
           digits == SelectSeq(r, IsDigit)
       IN  IF fnIn = None \/ t = <<>> THEN fnOut = None
           ELSE IF Contains(r, "@") THEN fnOut = Lower(r)
           ELSE IF digits # <<>>
                THEN fnOut = (IF Head(t) = "+" THEN <<"+">> ELSE <<>>) \o digits
                ELSE fnOut = Lower(t)

\* C7 (amended): None for absent or blank input; the lowercased remainder when
\* the remainder (after trimming and removing tel:) contains @; otherwise the
\* digits of the remainder, prefixed with + exactly when the remainder, trimmed
\* again, begins with +; the lowercased remainder when it has neither a digit
\* nor an @.  tel:+1 (555) 123-0001 gives +15551230001 and Jane@Example.com
\* gives jane@example.com.
C7_CanonicalizeActor ==
    fnPc = "done" =>
       LET t == Strip(fnIn)
           r == CanonRemainder(fnIn)
           digits == SelectSeq(r, IsDigit)
           rt == Strip(r)
       IN  /\ IF fnIn = None \/ t = <<>> THEN fnOut = None
              ELSE IF Contains(r, "@") THEN fnOut = Lower(r)
              ELSE IF digits # <<>>
                   THEN fnOut = (IF rt # <<>> /\ Head(rt) = "+" THEN <<"+">> ELSE <<>>)
                                \o digits
                   ELSE fnOut = Lower(r)
           /\ (fnIn = ExampleTel => fnOut = ExampleTelCanonical)
           /\ (fnIn = ExampleEmail => fnOut = ExampleEmailCanonical)

\* C7 witness: the tel: example has been canonicalized to a + number.
C7_Witness ==
    fnPc = "done" /\ fnIn = ExampleTel /\ fnOut = ExampleTelCanonical


\* C40: whenever canonicalize_actor returns a text, the text is not empty,
\* has no whitespace at either end, and canonicalize_actor applied to it
\* returns it again.
C40_IdempotentUsableKey ==
    (fnPc = "done" /\ fnOut # None) =>
        /\ fnOut # <<>>
        /\ Strip(fnOut) = fnOut
        /\ canonicalize_actor(fnOut) = fnOut

-----------------------------------------------------------------------------
(* Specification SpecInventory: log_image_inventory applied to the files   *)
(* of an extraction directory whose images the ledger may hold already.    *)
(* The table it starts from is built by the inventory and captioning       *)
(* operators above; a status can also be NULL (a row older than the        *)
(* caption_status column) or written in capitals (the column is free       *)
(* text).                                                                  *)

InventoryRels == {"a.jpg", "b.jpg"}

\* the status a stored row can carry beside the one captioning gave it
StatusRewrites == {"asis", "upper", "null"}

RewriteStatus(status, how) ==
    CASE how = "null" -> NULL
      [] how = "upper" /\ status = "done" -> "DONE"
      [] how = "upper" /\ status = "failed" -> "Failed"
      [] how = "upper" /\ status = "pending" -> "PENDING"
      [] OTHER -> status

\* the file sequences an inventory pass is given
InventoryPaths ==
    {<<"a.jpg">>, <<"b.jpg">>, <<"a.jpg", "b.jpg">>, <<"b.jpg", "a.jpg", "b.jpg">>}

PathsOf(uid, rels_) == [i \in DOMAIN rels_ |-> [uid |-> uid, rel |-> rels_[i]]]

\* the images table after an inventory of files earlier, the vision outcomes
\* vr ("skip": the row was never captioned) and the status rewrites how
EarlierTable(earlier, vr, how) ==
    LET rewritten(imgs) ==
            [i \in DOMAIN imgs |->
                [imgs[i] EXCEPT
                    !.caption_status = RewriteStatus(@, how[imgs[i].relative_path])]]
        captioned(inv) ==
            rewritten(describe_and_index_images(
                          inv.images,
                          SelectSeq(inv.records, LAMBDA r : vr[r.relative_path] # "skip"),
                          vr, "0").images)
    IN  captioned(log_image_inventory(<<>>, PathsOf(1, earlier), 1,
                                      [rel \in InventoryRels |-> "1024"]))

InitInventory ==
    /\ uploads = 1
    /\ messages = <<>> /\ contacts = <<>> /\ system_info = <<>> /\ vectors = EmptyDict
    /\ persons = {} /\ rels = {} /\ aliasMap = EmptyDict
    /\ run = NoRun /\ extracted = <<>>
    /\ cfg = [DefaultSettings EXCEPT !.vision = TRUE]
    /\ \E earlier \in {<<>>, <<"a.jpg">>, <<"a.jpg", "b.jpg">>},
          vr \in [InventoryRels -> {"ok", "fail", "skip"}],
          how \in [InventoryRels -> StatusRewrites] :
          images = EarlierTable(earlier, vr, how)
    /\ fnIn \in [paths : InventoryPaths, stat : [InventoryRels -> StatResults], before : {<<>>}]
    /\ fnOut = None
    /\ fnPc = "call"

CallLogImageInventory ==
    /\ fnPc = "call"
    /\ LET return(r) ==
               /\ images' = r.images
               /\ fnOut' = [processed |-> r.processed, records |-> r.records]
       IN  return(log_image_inventory(images, PathsOf(1, fnIn.paths), 1, fnIn.stat))
    /\ fnIn' = [fnIn EXCEPT !.before = images]
    /\ fnPc' = "done"
    /\ UNCHANGED <<uploads, messages, contacts, system_info, vectors, persons, rels, aliasMap,
                   cfg, run, extracted>>

NextInventory == CallLogImageInventory

SpecInventory == InitInventory /\ [][NextInventory]_vars

\* the row of table imgs for file rel of extraction 1, 0 when there is none
RowOf(imgs, rel) ==
    IF ImageRowsOf(imgs, 1, rel) = {} THEN 0
    ELSE CHOOSE i \in ImageRowsOf(imgs, 1, rel) : TRUE

\* status is done in some letter case
IsDone(status) == status \in {"done", "Done", "DONE"}

RecordIds(records) == {records[i].id : i \in DOMAIN records}

\* C8: after an inventory pass, a file that had a row already has status
\* pending unless its status was done in some letter case, in which case the
\* status is as it was; and the records returned are exactly those of the
\* files newly inserted and of the files reset to pending, one each.
C8_ResetUnlessDoneAndReturned ==
    fnPc = "done" =>
        /\ \A rel \in Range(fnIn.paths) :
              LET b == RowOf(fnIn.before, rel)
                  i == RowOf(images, rel)
              IN  /\ i # 0
                  /\ b # 0 => /\ i = b
                              /\ images[i].caption_status =
                                   IF IsDone(fnIn.before[b].caption_status)
                                   THEN fnIn.before[b].caption_status ELSE "pending"
                  /\ b = 0 => images[i].caption_status = "pending"
                  /\ (i \in RecordIds(fnOut.records))
                       <=> (b = 0 \/ ~IsDone(fnIn.before[b].caption_status))
        /\ RecordIds(fnOut.records) \subseteq {RowOf(images, rel) : rel \in Range(fnIn.paths)}
        /\ Cardinality(RecordIds(fnOut.records)) = Len(fnOut.records)

C8_Witness ==
    /\ fnPc = "done"
    /\ \E rel \in Range(fnIn.paths) :
          /\ RowOf(fnIn.before, rel) # 0
          /\ fnIn.before[RowOf(fnIn.before, rel)].caption_status = "DONE"
    /\ \E rel \in Range(fnIn.paths) :
          /\ RowOf(fnIn.before, rel) # 0
          /\ fnIn.before[RowOf(fnIn.before, rel)].caption_status = "failed"
          /\ RowOf(images, rel) \in RecordIds(fnOut.records)

\* C9: an inventory pass that finds a file whose row is done leaves the
\* row's status, description, tags, detected text and vector id as they were,
\* and its metadata has the keys of the old and of the new metadata, with the
\* new value for every key of the new metadata and the old value otherwise.
C9_DoneRowKeepsCaptionMergesMetadata ==
    fnPc = "done" =>
        \A rel \in Range(fnIn.paths) :
            LET b == RowOf(fnIn.before, rel) IN
            (b # 0 /\ fnIn.before[b].caption_status = "done") =>
                LET old == fnIn.before[b]
                    new == images[b]
                    old_md == JsonLoads(old.metadata)
                    new_md == build_image_metadata(1, rel, fnIn.stat[rel])
                    md == JsonLoads(new.metadata)
                IN  /\ new.caption_status = old.caption_status
                    /\ new.description = old.description
                    /\ new.tags = old.tags
                    /\ new.detected_text = old.detected_text
                    /\ new.vector_id = old.vector_id
                    /\ DOMAIN md = (DOMAIN old_md) \cup (DOMAIN new_md)
                    /\ \A k \in DOMAIN new_md : md[k] = new_md[k]
                    /\ \A k \in (DOMAIN old_md) \ (DOMAIN new_md) : md[k] = old_md[k]

C9_Witness ==
    /\ fnPc = "done"
    /\ \E rel \in Range(fnIn.paths) :
          LET b == RowOf(fnIn.before, rel) IN
          /\ b # 0
          /\ fnIn.before[b].caption_status = "done"
          /\ fnIn.stat[rel] = "2048"
          /\ JsonLoads(fnIn.before[b].metadata)["size_bytes"] = "1024"
          /\ JsonLoads(images[b].metadata)["size_bytes"] = "2048"
          /\ JsonLoads(images[b].metadata)["caption"] = "a cat"

-----------------------------------------------------------------------------
(* Specification SpecGraph: calls of GraphClient.register_person and       *)
(* GraphClient.register_message on an enabled graph store, one after       *)
(* another.  fnIn holds the arguments of the last call and the Person      *)
(* nodes it found, fnOut what it returned.                                 *)

GraphIdentifiers == {<<>>, Phone15}

GraphDisplayNames == {None, NameJane, TelPhone15}

GraphGivenNames == {None, NameJane, <<>>}

GraphFamilyNames == {None, NameAl}

GraphRawIdentifiers == {None, TelPhone15}

InitGraph ==
    /\ LedgerEmpty
    /\ cfg = [graph |-> TRUE, vector |-> FALSE, vision |-> FALSE]
    /\ FnIdle

\* GRAPH_CLIENT.register_person(identifier, display_name=..., ...); failing
\* says whether the write transaction fails
RegisterPerson(identifier, display_name, given_name, family_name, raw_identifier, failing) ==
    /\ LET st == [messages |-> messages, contacts |-> contacts, images |-> images,
                  persons |-> persons, rels |-> rels, alias |-> aliasMap,
                  stats |-> NewGraphStats, calls |-> 0, sent |-> <<>>]
           return(r) ==
               /\ persons' = r.st.persons
               /\ fnOut' = r.ok
       IN  return(ClientRegisterPerson(st, IF failing THEN {1} ELSE {}, identifier,
                                       display_name, given_name, family_name,
                                       raw_identifier, "client"))
    /\ fnIn' = [op |-> "register_person", identifier |-> identifier,
                display_name |-> display_name,
                given_name |-> given_name, family_name |-> family_name,
                raw_identifier |-> raw_identifier, source |-> "client",
                before |-> persons]
    /\ fnPc' = "done"
    /\ UNCHANGED <<uploads, images, messages, contacts, system_info, vectors, rels, aliasMap,
                   cfg, run, extracted>>

GraphSenders == {Phone15}

GraphReceivers == {EmailAB}

GraphLabels == {None, NameAl}

\* GRAPH_CLIENT.register_message(message_id="m1", sender_id=..., ...)
RegisterMessage(sender_id, receiver_id, sender_label, receiver_label, failing) ==
    /\ LET st == [messages |-> messages, contacts |-> contacts, images |-> images,
                  persons |-> persons, rels |-> rels, alias |-> aliasMap,
                  stats |-> NewGraphStats, calls |-> 0, sent |-> <<>>]
           attrs == [timestamp |-> [k |-> "none"], body |-> BodyHi,
                     conversation_id |-> None, source |-> "message"]
           return(r) ==
               /\ persons' = r.st.persons
               /\ rels' = r.st.rels
               /\ fnOut' = r.ok
       IN  return(ClientRegisterMessage(st, IF failing THEN {1} ELSE {}, "m1",
                                        sender_id, receiver_id, attrs,
                                        sender_label, receiver_label))
    /\ fnIn' = [op |-> "register_message", sender_id |-> sender_id,
                receiver_id |-> receiver_id, sender_label |-> sender_label,
                receiver_label |-> receiver_label, source |-> "message",
                before |-> persons]
    /\ fnPc' = "done"
    /\ UNCHANGED <<uploads, images, messages, contacts, system_info, vectors, aliasMap,
                   cfg, run, extracted>>

NextGraph ==
    \/ \E identifier \in GraphIdentifiers, display_name \in GraphDisplayNames,
          given_name \in GraphGivenNames, family_name \in GraphFamilyNames,
          raw_identifier \in GraphRawIdentifiers, failing \in BOOLEAN :
          RegisterPerson(identifier, display_name, given_name, family_name,
                         raw_identifier, failing)
    \/ \E sender_id \in GraphSenders, receiver_id \in GraphReceivers,
          sender_label \in GraphLabels, receiver_label \in GraphLabels,
          failing \in BOOLEAN :
          RegisterMessage(sender_id, receiver_id, sender_label, receiver_label, failing)

SpecGraph == InitGraph /\ [][NextGraph]_vars

\* the Person node with id identifier among nodes P
PersonOf(P, identifier) == CHOOSE p \in P : p.id = identifier

\* C10: a call of register_person with display_name (given_name,
\* family_name) null leaves a stored non-empty display_name (given_name,
\* family_name) of that person as it was.
C10_NullKeepsStoredName ==
    (fnPc = "done" /\ fnIn.op = "register_person") =>
        \A old \in fnIn.before :
            old.id = fnIn.identifier =>
                LET new == PersonOf(persons, fnIn.identifier) IN
                /\ (fnIn.display_name = None /\ Truthy(old.display_name))
                       => new.display_name = old.display_name
                /\ (fnIn.given_name = None /\ Truthy(old.given_name))
                       => new.given_name = old.given_name
                /\ (fnIn.family_name = None /\ Truthy(old.family_name))
                       => new.family_name = old.family_name

C10_Witness ==
    /\ fnPc = "done"
    /\ fnIn.op = "register_person"
    /\ fnOut = TRUE
    /\ fnIn.display_name = None /\ fnIn.given_name = None /\ fnIn.family_name = None
    /\ \E old \in fnIn.before :
          /\ old.id = fnIn.identifier
          /\ old.display_name = NameJane
          /\ old.given_name = NameJane
          /\ old.family_name = NameAl
    /\ PersonOf(persons, fnIn.identifier).display_name = NameJane


\* the canonical ids the last call wrote to, none when its transaction failed
WrittenIds ==
    IF fnPc # "done" \/ fnOut # TRUE THEN {}
    ELSE IF fnIn.op = "register_person" THEN {fnIn.identifier}
    ELSE {fnIn.sender_id, fnIn.receiver_id}

\* the value the last call supplies for attribute attr of the person id
\* (register_message supplies a display name only: the label, or the id
\* when the label is null; for a message from a person to itself the
\* sender's SET comes first)
Supplied(id, attr) ==
    IF fnIn.op = "register_person"
    THEN CASE attr = "raw_identifier" -> Or(fnIn.raw_identifier, fnIn.identifier)
           [] attr = "display_name" -> fnIn.display_name
           [] attr = "given_name" -> fnIn.given_name
           [] OTHER -> fnIn.family_name
    ELSE IF attr # "display_name" THEN None
    ELSE IF id = fnIn.sender_id THEN Or(fnIn.sender_label, fnIn.sender_id)
    ELSE Or(fnIn.receiver_label, fnIn.receiver_id)

\* the node of person id before the last call (a node without attributes
\* when the call created it)
OldPerson(id) ==
    IF \E p \in fnIn.before : p.id = id THEN PersonOf(fnIn.before, id)
    ELSE NewPerson(fnIn.before, id)

IdentityAttributes == {"raw_identifier", "display_name", "given_name", "family_name"}

\* C11 as stated: every write to a person leaves each identity attribute
\* that held a non-empty value as it was, sets an attribute that held none
\* to the non-empty value the write supplies, and sets last_seen_source to
\* the source of the write.
C11_FirstWriterWins ==
    \A id \in WrittenIds :
        LET old == OldPerson(id)
            new == PersonOf(persons, id)
        IN  /\ \A attr \in IdentityAttributes :
                 /\ Truthy(old[attr]) => new[attr] = old[attr]
                 /\ (~Truthy(old[attr]) /\ Truthy(Supplied(id, attr)))
                        => new[attr] = Supplied(id, attr)
            /\ new.last_seen_source = fnIn.source

\* C11: every write to a person sets last_seen_source to its source; leaves a
\* stored raw_identifier as it was and sets an unset one to the supplied one;
\* leaves a non-empty given_name (family_name) as it was and sets a null or
\* empty one to the supplied non-null one; and leaves a stored display_name
\* as it was unless it is null, or equals the node's raw_identifier and the
\* write is a register_person, in which cases a supplied non-null value
\* replaces it (an empty stored display_name is kept).
C11_FirstWriterWinsButPlaceholder ==
    \A id \in WrittenIds :
        LET old == OldPerson(id)
            new == PersonOf(persons, id)
            placeholder == fnIn.op = "register_person"
                           /\ old.display_name = new.raw_identifier
        IN  /\ new.last_seen_source = fnIn.source
            /\ new.raw_identifier = IF old.raw_identifier # None THEN old.raw_identifier
                                    ELSE Supplied(id, "raw_identifier")
            /\ \A attr \in {"given_name", "family_name"} :
                 new[attr] = IF Truthy(old[attr]) \/ Supplied(id, attr) = None
                             THEN old[attr] ELSE Supplied(id, attr)
            /\ new.display_name =
                 IF Supplied(id, "display_name") # None
                    /\ (old.display_name = None \/ placeholder)
                 THEN Supplied(id, "display_name") ELSE old.display_name

C11_Witness ==
    /\ fnPc = "done" /\ fnOut = TRUE
    /\ fnIn.op = "register_person"
    /\ fnIn.display_name = NameJane
    /\ \E old \in fnIn.before :
          /\ old.id = fnIn.identifier
          /\ old.display_name = Phone15
          /\ old.raw_identifier = Phone15
          /\ old.last_seen_source = "message"
    /\ PersonOf(persons, fnIn.identifier).display_name = NameJane
    /\ PersonOf(persons, fnIn.identifier).last_seen_source = "client"


-----------------------------------------------------------------------------
(* Claims on Spec about failures inside a run.                             *)

\* the files of the last run's archive by kind: what the note of a parsed
\* file and of a failed file say before the count and the exception, and
\* whether the file can be read at all
ClassifiedFiles(a) ==
    {[name |-> f.name, parsed |-> " messages from ",
      failed |-> "Failed parsing messages from ", readable |-> IsSqlite(f)]
        : f \in Range(DiscoverMessageDbs(a))}
    \cup {[name |-> f.name, parsed |-> " contacts from ",
           failed |-> "Failed parsing contacts from ", readable |-> IsSqlite(f)]
        : f \in Range(DiscoverContactDbs(a))}
    \cup {[name |-> f.name, parsed |-> " contacts from ",
           failed |-> "Failed parsing contacts XML ", readable |-> f.wellformed]
        : f \in Range(DiscoverContactXml(a))}
    \cup {[name |-> f.name, parsed |-> " system records from ",
           failed |-> "Failed parsing system plist ", readable |-> f.valid]
        : f \in Range(DiscoverPlists(a))}

ParsedNote(f, notes) ==
    \E n \in 0..(run.summary.messages_ingested + run.summary.contacts_ingested
                     + run.summary.system_records_ingested) :
        ("Parsed " \o ToString(n) \o f.parsed \o f.name) \in notes

FailedNote(f, notes) ==
    \E exc \in {"DatabaseError", "ParseError", "InvalidFileException",
                "IntegrityError", "OSError", "OverflowError", "ValueError"} :
        (f.failed \o f.name \o ": " \o exc) \in notes

\* the rows of the readable source files of archive a are in the ledger,
\* those of contacts, XML contacts and property lists as rows of upload uid
SourceRowsInLedger(a, uid) ==
    /\ \A db \in Range(DiscoverMessageDbs(a)) :
          (IsSqlite(db) /\ ParsedNote([name |-> db.name, parsed |-> " messages from "],
                                      Range(run.summary.notes))) =>
              \A t \in Range(db.tables) : \A row \in Range(t.rows) :
                  \E i \in DOMAIN messages : messages[i].external_id = ExternalId(db, t, row)
    /\ \A db \in Range(DiscoverContactDbs(a)) :
          IsSqlite(db) =>
              \A t \in Range(db.tables) : \A row \in Range(t.rows) :
                  \E i \in DOMAIN contacts :
                      /\ contacts[i].external_id = ExternalId(db, t, row)
                      /\ contacts[i].source = PathOf(uid, db.name)
    /\ \A xml \in Range(DiscoverContactXml(a)) :
          xml.wellformed =>
              \A k \in DOMAIN xml.contacts :
                  \E i \in DOMAIN contacts :
                      /\ contacts[i].external_id = xml.name \o ":" \o ToString(k - 1)
                      /\ contacts[i].source = PathOf(uid, xml.name)
                      /\ contacts[i].email = xml.contacts[k].email
    /\ \A plist \in Range(DiscoverPlists(a)) :
          plist.valid =>
              \A k \in DOMAIN plist.items :
                  \E i \in DOMAIN system_info :
                      /\ system_info[i].info_key = plist.items[k].key
                      /\ system_info[i].source = PathOf(uid, plist.name)

\* C12: in every run each classified source file of the archive has its own
\* note, "Parsed ..." or "Failed parsing ... <file name>: ...", a file that
\* cannot be read has the failure note that names it, the rows of the other
\* files are in the ledger, and no parsing failure reaches the caller (the
\* run raises only when indexing the embeddings does).
C12_ParseFailureIsolated ==
    run.op = "ingest" =>
        /\ \A f \in ClassifiedFiles(run.archive) :
              /\ ParsedNote(f, Range(run.summary.notes))
                     \/ FailedNote(f, Range(run.summary.notes))
              /\ ~f.readable => FailedNote(f, Range(run.summary.notes))
        /\ SourceRowsInLedger(run.archive, run.uid)
        /\ run.raised => run.eo = "OtherError"

C12_Witness ==
    /\ run.op = "ingest"
    /\ run.archive = "C"
    /\ ~run.raised
    /\ "Failed parsing messages from chat.db: DatabaseError" \in Range(run.summary.notes)
    /\ "Failed parsing contacts from addressbook.db: DatabaseError" \in Range(run.summary.notes)
    /\ "Failed parsing contacts XML contacts_old.xml: ParseError" \in Range(run.summary.notes)
    /\ "Failed parsing system plist broken.plist: InvalidFileException"
           \in Range(run.summary.notes)
    /\ "Parsed 1 messages from mms.sqlite" \in Range(run.summary.notes)
    /\ run.summary.contacts_ingested = 2
    /\ run.summary.system_records_ingested = 1
    /\ Len(messages) = Len(run.before.messages) + 1


\* the last run handed a batch to _index_embeddings and the encoding call
\* or the upsert failed
IndexingFailed ==
    /\ run.op = "ingest"
    /\ run.batch # <<>>
    /\ run.eo # "ok"

\* C13: when the encoding call or the upsert of a run's batch fails, the run
\* still returns its summary, with the note of the indexing failure; no
\* entry of the batch is stored and the ledger rows the run wrote are kept.
C13_IndexingFailureReported ==
    IndexingFailed =>
        /\ ~run.raised
        /\ "Vector store indexing failed" \in Range(run.summary.notes)
        /\ vectors = run.before.vectors
        /\ Len(messages) = Len(run.before.messages) + run.summary.messages_ingested


\* C14: a run on an archive that was saved and extracted always returns its
\* summary; only the uploads that could not be extracted raise.
C14_ExtractedRunReturnsSummary ==
    run.op # "none" => (run.raised <=> run.archive \in CorruptArchives)

\* C16: an upload that cannot be extracted ends in an error the caller sees,
\* without a summary, and leaves the messages, contacts, system_info and
\* images tables, the graph and the vector store as they were.
C16_CorruptArchiveRejected ==
    (run.op # "none" /\ run.archive \in CorruptArchives) =>
        /\ run.op = "rejected"
        /\ run.raised
        /\ run.status_code \in {400, 500}
        /\ "summary" \notin DOMAIN run
        /\ Snapshot = run.before

C16_Witness ==
    /\ run.op = "rejected"
    /\ run.archive = "Z"
    /\ run.error = "BadZipFile"
    /\ run.status_code = 400
    /\ run.uid = 2
    /\ Len(messages) > 0
    /\ Snapshot = run.before


\* C15: in the captioning pass of a run (the vision client exists)
\* describe_image is called for every
\* queued record, in the order of the queue, whatever the earlier calls did;
\* a record whose call failed is failed, with an error message of at most
\* 512 characters and the timestamp of the pass, and has no EmbeddingRecord;
\* a record whose call succeeded is done and has one.
C15_EveryRecordCaptioned ==
    (run.op = "ingest" /\ cfg.vision) =>
        /\ run.vision = run.queued
        /\ \A k \in DOMAIN run.queued :
              LET id == run.queued[k]
                  row == images[id]
                  emb == {i \in DOMAIN run.emitted : run.emitted[i] = "img:" \o ToString(id)}
                  err == {i \in DOMAIN run.errors : run.errors[i].id = id}
              IN  IF run.vr[row.relative_path] = "ok"
                  THEN /\ row.caption_status = "done"
                       /\ Cardinality(emb) = 1
                       /\ err = {}
                  ELSE /\ row.caption_status = "failed"
                       /\ row.caption_error # NULL
                       /\ Cardinality(err) = 1
                       /\ \A i \in err : run.errors[i].len <= 512
                       /\ row.last_captioned_at = ToString(run.uid)
                       /\ emb = {}

C15_Witness ==
    /\ run.op = "ingest"
    /\ Len(run.queued) = 2
    /\ run.vision = run.queued
    /\ run.vr[images[run.queued[1]].relative_path] = "fail_long"
    /\ run.vr[images[run.queued[2]].relative_path] = "ok"
    /\ images[run.queued[1]].caption_status = "failed"
    /\ run.errors = <<[id |-> run.queued[1], len |-> 512]>>
    /\ images[run.queued[2]].caption_status = "done"
    /\ run.emitted = <<"img:" \o ToString(run.queued[2])>>

\* C25: the EmbeddingRecords a captioning pass emits are as many as the
\* records it set to done and as many as the images_captioned count the run
\* reports: one, with vector_id img:<row id>, for each record set to done,
\* and none for a record set to failed.
C25_OneEmbeddingPerCaption ==
    run.op = "ingest" =>
        LET done == {k \in DOMAIN run.queued : images[run.queued[k]].caption_status = "done"}
        IN  /\ Len(run.emitted) = Cardinality(done)
            /\ run.summary.images_captioned = Cardinality(done)
            /\ \A k \in done :
                   Cardinality({i \in DOMAIN run.emitted :
                                   run.emitted[i] = "img:" \o ToString(run.queued[k])}) = 1
            /\ \A k \in DOMAIN run.queued \ done :
                   \A i \in DOMAIN run.emitted :
                       run.emitted[i] # "img:" \o ToString(run.queued[k])

\* a pass over two records in a second upload: the first is captioned, the
\* vision call for the second fails
C25_Witness ==
    /\ run.op = "ingest"
    /\ run.uid = 2
    /\ Len(run.queued) = 2
    /\ images[run.queued[1]].caption_status = "done"
    /\ images[run.queued[2]].caption_status = "failed"
    /\ run.summary.images_captioned = 1
    /\ run.emitted = <<"img:" \o ToString(run.queued[1])>>
    /\ images[run.queued[1]].vector_id = "img:" \o ToString(run.queued[1])

\* C20: when a run ends, every image record it handed to the captioner has
\* caption_status done or failed.
C20_NoQueuedRecordPending ==
    run.op = "ingest" =>
        \A k \in DOMAIN run.queued :
            images[run.queued[k]].caption_status \in {"done", "failed"}


\* the message rows the run of upload uid read from its archive, each with
\* the external id and the vector id _ingest_messages_from_table gave it
SourceRows(uid) ==
    IF extracted[uid].archive \notin Archives THEN {}
    ELSE UNION {UNION {{[archive |-> extracted[uid].archive, db |-> db.name,
                         table |-> t.name, rowid |-> row.rowid, body |-> row.body,
                         external_id |-> ExternalId(db, t, row),
                         vector_id |-> MessageVectorId(ExternalId(db, t, row), row.body)]
                           : row \in Range(t.rows)}
                       : t \in {t \in Range(db.tables) : looks_like_message_table(t.columns)}}
                   : db \in {db \in Range(DiscoverMessageDbs(extracted[uid].archive)) :
                                IsSqlite(db)}}

\* C18: two different source rows (of different archives, database files,
\* tables or row ids) never get the same external id, nor the same vector id.
C18_ExternalIdNeverReused ==
    \A u1, u2 \in 1..uploads :
        \A r1 \in SourceRows(u1), r2 \in SourceRows(u2) :
            (<<r1.archive, r1.db, r1.table, r1.rowid>>
                 # <<r2.archive, r2.db, r2.table, r2.rowid>>)
            => /\ r1.external_id # r2.external_id
               /\ r1.vector_id # NULL => r1.vector_id # r2.vector_id


-----------------------------------------------------------------------------
(* Specification SpecAlias: requests to POST /api/ingest/ufdr in one       *)
(* server process, step by step.  upload_ufdr_archive is an `async def`    *)
(* that calls ingest_ufdr_archive without an await: once the event loop    *)
(* runs the handler of a request it runs nothing else until the handler    *)
(* returns, and a request that arrives meanwhile waits.  run[r] is the     *)
(* state of request r: pc, archive, extraction id, the next source row,    *)
(* the run's GraphStats, and four histories: cleared, what the map held    *)
(* right after the run's CONTACT_ALIAS_MAP.clear(); written, the (key,     *)
(* alias) pairs the run stored in CONTACT_ALIAS_MAP; reads, the pairs it   *)
(* read while labeling message endpoints; foreign, those of them it had    *)
(* not stored itself.                                                      *)

MaxRequests == 2

Requests == 1..MaxRequests

\* the archives the requests upload: one message table and one contact table each
AliasArchives == {"A", "B"}

RunningStates == {"messages", "contacts"}

\* a thread pool runs the handlers: no request waits for another
HandlerMayRunThreaded(r) == run[r].pc = "accepted"

\* the event loop runs the handler of r: no other handler is running
HandlerMayRun(r) ==
    /\ run[r].pc = "accepted"
    /\ \A o \in Requests \ {r} : run[o].pc \notin RunningStates

IdleRequest ==
    [pc |-> "idle", archive |-> NULL, uid |-> 0, i |-> 1, stats |-> NewGraphStats,
     cleared |-> EmptyDict, written |-> {}, reads |-> {}, foreign |-> {}]

InitAlias ==
    /\ uploads = 0
    /\ images = <<>> /\ messages = <<>> /\ contacts = <<>> /\ system_info = <<>>
    /\ vectors = EmptyDict /\ persons = {} /\ rels = {}
    /\ aliasMap = EmptyDict
    /\ extracted = <<>>
    /\ cfg = [graph |-> TRUE, vector |-> FALSE, vision |-> FALSE]
    /\ run = [r \in Requests |-> IdleRequest]
    /\ FnIdle

\* the server receives request r with archive a and queues its handler
AcceptRequest(r, a) ==
    /\ run[r].pc = "idle"
    /\ run' = [run EXCEPT ![r].pc = "accepted", ![r].archive = a]
    /\ UNCHANGED <<uploads, images, messages, contacts, system_info, vectors, persons,
                   rels, aliasMap, cfg, extracted, fnVars>>

\* ingest_ufdr_archive up to CONTACT_ALIAS_MAP.clear() and GraphStats()
StartRun(r) ==
    /\ HandlerMayRun(r)
    /\ uploads' = uploads + 1
    /\ aliasMap' = EmptyDict
    /\ run' = [run EXCEPT ![r].pc = "messages", ![r].uid = uploads + 1, ![r].i = 1,
                          ![r].stats = NewGraphStats, ![r].cleared = EmptyDict]
    /\ UNCHANGED <<images, messages, contacts, system_info, vectors, persons, rels,
                   cfg, extracted, fnVars>>

\* the (key, alias) pairs a step stored: the entries of map after that map
\* before did not hold
StoredPairs(before, after) ==
    {<<k, after[k]>> : k \in {k \in DOMAIN after : k \notin DOMAIN before
                                                  \/ before[k] # after[k]}}

\* the (key, alias) pairs _register_message_with_graph reads for a row
ReadPairs(map, row) ==
    IF ~Truthy(canonicalize_actor(row.sender)) \/ ~Truthy(canonicalize_actor(row.receiver))
    THEN {}
    ELSE {<<k, map[k]>> : k \in {canonicalize_actor(row.sender),
                                 canonicalize_actor(row.receiver)} \cap DOMAIN map}

\* the threaded state of request r's run
RunState(r) ==
    [messages |-> messages, contacts |-> contacts, images |-> images,
     system_info |-> system_info, persons |-> persons, rels |-> rels,
     alias |-> aliasMap, stats |-> run[r].stats, calls |-> 0, sent |-> <<>>]

\* one row of the message table: INSERT OR IGNORE and
\* _register_message_with_graph; past the last row the run turns to contacts
IngestMessageRow(r) ==
    /\ run[r].pc = "messages"
    /\ LET db == DiscoverMessageDbs(run[r].archive)[1]
           table == db.tables[1]
           stepped(row, res) ==
               /\ messages' = res.st.messages
               /\ persons' = res.st.persons
               /\ rels' = res.st.rels
               /\ aliasMap' = res.st.alias
               /\ run' = [run EXCEPT
                            ![r].i = @ + 1,
                            ![r].stats = res.st.stats,
                            ![r].reads = @ \cup ReadPairs(aliasMap, row),
                            ![r].foreign = @ \cup (ReadPairs(aliasMap, row) \ run[r].written),
                            ![r].written = @ \cup StoredPairs(aliasMap, res.st.alias)]
       IN  IF run[r].i > Len(table.rows)
           THEN /\ run' = [run EXCEPT ![r].pc = "contacts", ![r].i = 1]
                /\ UNCHANGED <<messages, persons, rels, aliasMap>>
           ELSE stepped(table.rows[run[r].i],
                        IngestMessageRows([st |-> RunState(r), ingested |-> 0,
                                           emb |-> <<>>, failed |-> ""],
                                          {}, run[r].uid, db, table,
                                          <<table.rows[run[r].i]>>))
    /\ UNCHANGED <<uploads, images, contacts, system_info, vectors, cfg, extracted, fnVars>>

\* one row of the contact table: INSERT and _register_contact_with_graph;
\* past the last row the run returns its summary
IngestContactRow(r) ==
    /\ run[r].pc = "contacts"
    /\ LET db == DiscoverContactDbs(run[r].archive)[1]
           table == db.tables[1]
           stepped(res) ==
               /\ contacts' = res.st.contacts
               /\ persons' = res.st.persons
               /\ aliasMap' = res.st.alias
               /\ run' = [run EXCEPT
                            ![r].i = @ + 1,
                            ![r].stats = res.st.stats,
                            ![r].written = @ \cup StoredPairs(aliasMap, res.st.alias)]
       IN  IF run[r].i > Len(table.rows)
           THEN /\ run' = [run EXCEPT ![r].pc = "done"]
                /\ UNCHANGED <<contacts, persons, aliasMap>>
           ELSE stepped(IngestContactRows([st |-> RunState(r), ingested |-> 0],
                                          {}, run[r].uid, db, table,
                                          <<table.rows[run[r].i]>>))
    /\ UNCHANGED <<uploads, images, messages, system_info, vectors, rels, cfg, extracted,
                   fnVars>>

NextAlias ==
    \E r \in Requests :
        \/ \E a \in AliasArchives : AcceptRequest(r, a)
        \/ StartRun(r)
        \/ IngestMessageRow(r)
        \/ IngestContactRow(r)

SpecAlias == InitAlias /\ [][NextAlias]_vars

\* C17: the alias map is empty when a run starts on its source rows, and no
\* run ever reads, while labeling message endpoints, an alias it did not
\* store itself, whatever other requests are in flight.
C17_AliasMapRunScoped ==
    \A r \in Requests :
        /\ run[r].cleared = EmptyDict
        /\ (run[r].pc = "messages" /\ run[r].i = 1) => aliasMap = EmptyDict
        /\ run[r].foreign = {}

\* two requests in flight: one waits while the other labels endpoints from
\* aliases it stored itself
C17_Witness ==
    \E r, o \in Requests :
        /\ r # o
        /\ run[r].pc \in RunningStates
        /\ run[r].reads # {}
        /\ run[r].reads \subseteq run[r].written
        /\ run[o].pc = "accepted"


-----------------------------------------------------------------------------
(* Specification SpecPosthog: services/vector_store.py patches the posthog *)
(* module when it is imported.  fnIn is the posthog module: installed,     *)
(* api_key, project_api_key (NULL: the attribute is missing), required,    *)
(* the number of required positional parameters of the module's own        *)
(* capture, capture ("original" or "legacy": what posthog.capture is bound *)
(* to), calls, the calls the original capture received as [event, kwargs], *)
(* and api_key0, the api_key the module had when it was loaded.  fnOut is  *)
(* the last call of posthog.capture in the legacy form: its arguments,     *)
(* what it returned or raised, and the calls the original had seen before. *)

MaxCalls == 2

PosthogKeys == {NULL, "", "phc_live"}

PosthogProjectKeys == {NULL, "", "test-key"}

RequiredPositionals == {0, 1, 2}

LegacyProperties == {NULL, "{foo: bar}"}

LegacyExtras == {EmptyDict, Put(EmptyDict, "extra", "value")}

\* payload = {"distinct_id": distinct_id, **kwargs} with properties always added
legacy_payload_with_properties(distinct_id, properties, kwargs) ==
    Put(Merge(Put(EmptyDict, "distinct_id", distinct_id), kwargs), "properties", properties)

\* payload = {"distinct_id": distinct_id, **kwargs}, and
\* payload["properties"] = properties if properties is not None
legacy_payload(distinct_id, properties, kwargs) ==
    IF properties # NULL
    THEN Put(Merge(Put(EmptyDict, "distinct_id", distinct_id), kwargs), "properties", properties)
    ELSE Merge(Put(EmptyDict, "distinct_id", distinct_id), kwargs)

\* the original capture(event, **kwargs) of the module: records the call
original_capture(module, event, kwargs) ==
    [module |-> [module EXCEPT !.calls = Append(@, [event |-> event, kwargs |-> kwargs])],
     result |-> "ok"]

\* _legacy_capture(distinct_id, event, properties=None, **kwargs)
legacy_capture(module, distinct_id, event, properties, kwargs) ==
    original_capture(module, event, legacy_payload(distinct_id, properties, kwargs))

\* the required positional parameters inspect.signature finds on posthog.capture
SignatureRequired(module) ==
    IF module.capture = "legacy" THEN 2 ELSE module.required

\* _patch_posthog_capture
patch_posthog_capture(module) ==
    IF ~module.installed THEN module
    ELSE IF SignatureRequired(module) > 1 THEN module
    ELSE [module EXCEPT
            !.api_key = IF @ \in {NULL, ""}
                        THEN (IF module.project_api_key \in {NULL, ""} THEN "disabled"
                              ELSE module.project_api_key)
                        ELSE @,
            !.capture = "legacy"]

InitPosthog ==
    /\ LedgerEmpty
    /\ cfg = DefaultSettings
    /\ fnIn \in {[installed |-> inst, api_key |-> k, api_key0 |-> k, project_api_key |-> pk,
                  required |-> n, capture |-> "original", calls |-> <<>>]
                    : inst \in BOOLEAN, k \in PosthogKeys, pk \in PosthogProjectKeys,
                      n \in RequiredPositionals}
    /\ fnOut = None
    /\ fnPc = "idle"

\* import (or reload) of services/vector_store.py: _patch_posthog_capture()
ApplyPatch ==
    /\ fnIn' = patch_posthog_capture(fnIn)
    /\ fnPc' = "patched"
    /\ UNCHANGED <<fnOut, ledgerVars>>

\* posthog.capture(distinct_id, event, properties, **extra): a caller of the
\* legacy form.  An unpatched capture(event, **kwargs) rejects the extra
\* positional arguments; a capture that has the legacy signature itself
\* takes the call as it is.
CallCapture(distinct_id, event, properties, extra) ==
    /\ fnIn.installed
    /\ Len(fnIn.calls) < MaxCalls
    /\ LET args == [distinct_id |-> distinct_id, event |-> event,
                    properties |-> properties, extra |-> extra]
           returned(r) ==
               /\ fnIn' = r.module
               /\ fnOut' = [args |-> args, result |-> r.result, before |-> fnIn.calls,
                            via |-> fnIn.capture]
       IN  IF fnIn.capture = "legacy"
           THEN returned(legacy_capture(fnIn, distinct_id, event, properties, extra))
           ELSE IF fnIn.required = 2
           THEN returned(original_capture(fnIn, event,
                                          legacy_payload(distinct_id, properties, extra)))
           ELSE returned([module |-> fnIn, result |-> "TypeError"])
    /\ fnPc' = "called"
    /\ UNCHANGED ledgerVars

NextPosthog ==
    \/ ApplyPatch
    \/ \E properties \in LegacyProperties, extra \in LegacyExtras :
          CallCapture("user-123", "telemetry-event", properties, extra)

SpecPosthog == InitPosthog /\ [][NextPosthog]_vars

\* the last step was a legacy call on the patched capture of a module whose
\* own capture has the event as its only required positional parameter
PatchedLegacyCall ==
    /\ fnPc = "called"
    /\ fnOut.via = "legacy"
    /\ fnIn.required = 1

\* C19 as stated: the call is forwarded once, with the event and the keyword
\* arguments distinct_id, properties and the extras, the original's result
\* is returned, and an unset api_key holds project_api_key.
C19_ForwardsWithProperties ==
    PatchedLegacyCall =>
        /\ fnIn.calls = Append(fnOut.before,
                               [event |-> fnOut.args.event,
                                kwargs |-> Put(Put(fnOut.args.extra, "distinct_id",
                                                   fnOut.args.distinct_id),
                                               "properties", fnOut.args.properties)])
        /\ fnOut.result = "ok"
        /\ fnIn.api_key0 \in {NULL, ""} => fnIn.api_key = fnIn.project_api_key

\* C19: the call is forwarded once, with the event and the keyword arguments
\* distinct_id, the extras and, unless it is None, properties; the
\* original's result is returned; an api_key that was None or empty holds
\* project_api_key, or "disabled" when that is missing or empty, and any
\* other api_key is kept.
C19_LegacyCaptureForwards ==
    PatchedLegacyCall =>
        /\ Len(fnIn.calls) = Len(fnOut.before) + 1
        /\ \A i \in DOMAIN fnOut.before : fnIn.calls[i] = fnOut.before[i]
        /\ LET call == fnIn.calls[Len(fnIn.calls)]
           IN  /\ call.event = fnOut.args.event
               /\ DOMAIN call.kwargs =
                      {"distinct_id"} \cup DOMAIN fnOut.args.extra
                      \cup (IF fnOut.args.properties # NULL THEN {"properties"} ELSE {})
               /\ call.kwargs["distinct_id"] = fnOut.args.distinct_id
               /\ \A k \in DOMAIN fnOut.args.extra : call.kwargs[k] = fnOut.args.extra[k]
               /\ "properties" \in DOMAIN call.kwargs
                      => call.kwargs["properties"] = fnOut.args.properties
        /\ fnOut.result = "ok"
        /\ fnIn.api_key =
               IF fnIn.api_key0 \notin {NULL, ""} THEN fnIn.api_key0
               ELSE IF fnIn.project_api_key \in {NULL, ""} THEN "disabled"
               ELSE fnIn.project_api_key

\* the call of tests/test_vector_store.py
C19_Witness ==
    /\ PatchedLegacyCall
    /\ fnIn.api_key0 = NULL
    /\ fnIn.project_api_key = "test-key"
    /\ fnIn.api_key = "test-key"
    /\ fnOut.args.properties = "{foo: bar}"
    /\ fnOut.args.extra = Put(EmptyDict, "extra", "value")
    /\ fnOut.result = "ok"
    /\ fnIn.calls = <<[event |-> "telemetry-event",
                       kwargs |-> [k \in {"distinct_id", "properties", "extra"} |->
                                     CASE k = "distinct_id" -> "user-123"
                                       [] k = "properties" -> "{foo: bar}"
                                       [] OTHER -> "value"]]>>

-----------------------------------------------------------------------------
(* Claims on Spec about the calls a run makes of the graph client.         *)

\* the contact rows the last run appended to the ledger
RunContacts == RowsAfter(contacts, Len(run.before.contacts))

\* the canonical ids under which _register_contact_with_graph registers contact c
ContactIdentities(c) ==
    LET ids == ContactIdentifiers(c.display_name, c.phone_number, c.email)
    IN  {ids[i][1] : i \in DOMAIN ids}

\* preferred_name of contact c in _register_contact_with_graph
PreferredName(c) ==
    LET ids == ContactIdentifiers(c.display_name, c.phone_number, c.email)
    IN  Or(c.display_name,
           Or(compose_display_name(c.given_name, c.family_name),
              IF ids # <<>> THEN ids[1][2] ELSE None))

\* the preferred names of the contacts of the last run that have identity id
ContactNamesOf(id) ==
    {PreferredName(RunContacts[j]) : j \in {j \in DOMAIN RunContacts :
                                              id \in ContactIdentities(RunContacts[j])}}

\* C21 (as claimed): when an endpoint of a message canonicalizes to the
\* identity of a contact the same run ingested, the label the run sends to
\* the graph for that endpoint is that contact's preferred display name.
C21_EndpointLabelIsContactName ==
    (run.op = "ingest" /\ cfg.graph) =>
        \A i \in DOMAIN run.sent :
            run.sent[i].op = "register_message" =>
                /\ ContactNamesOf(run.sent[i].sender_id) # {}
                       => run.sent[i].sender_label \in ContactNamesOf(run.sent[i].sender_id)
                /\ ContactNamesOf(run.sent[i].receiver_id) # {}
                       => run.sent[i].receiver_label \in ContactNamesOf(run.sent[i].receiver_id)

-----------------------------------------------------------------------------
(* Specification SpecLedger: up to MaxLedgerUploads uploads of the         *)
(* archives A, B and D, followed by a resynchronisation of the graph from  *)
(* the ledger or by a reset of the graph.  The vector store and the vision *)
(* client are switched off; the graph store is on or off, and fails at     *)
(* most MaxGraphFailures of the transactions of a run.                     *)

MaxLedgerUploads == 3

LedgerArchives == {"A", "B", "D"}

InitLedger ==
    /\ LedgerEmpty
    /\ cfg \in [graph : BOOLEAN, vector : {FALSE}, vision : {FALSE}]
    /\ FnIdle

\* POST /upload with archive a
UploadArchive(a) ==
    /\ uploads < MaxLedgerUploads
    /\ run.op \notin {"resync", "reset"}
    /\ IngestExtracted(a)
    /\ UNCHANGED <<cfg, fnVars>>

\* services/graph_sync.py: GraphResyncStats()
NewResyncStats ==
    [cleared |-> FALSE, contacts_synced |-> 0, relationships_synced |-> 0,
     skipped_contacts |-> 0, skipped_messages |-> 0, detail |-> NULL]

\* the (canonical, raw) pairs resync_graph registers for a contact row
ResyncIdentifiers(display_name, given_name, family_name, phone_number, email) ==
    LET cand(raw) ==
            LET c == canonicalize_actor(raw) IN
            IF Truthy(c) THEN <<(<<c, Or(raw, c)>>)>> ELSE <<>>
        ids == cand(phone_number) \o cand(email)
        composed == Or(display_name, compose_display_name(given_name, family_name))
    IN  IF ids = <<>> /\ Truthy(canonicalize_actor(composed))
        THEN <<(<<canonicalize_actor(composed), Or(composed, canonicalize_actor(composed))>>)>>
        ELSE ids

RECURSIVE ResyncPersons(_, _, _, _, _)
\* the loop `for canonical, raw in identifiers` of resync_graph; st is
\* [persons, rels, calls, sent, alias, seen, stats]
ResyncPersons(st, gf, ids, preferred_name, row) ==
    IF ids = <<>> THEN st
    ELSE LET canonical == ids[1][1]
             raw == ids[1][2]
             after(r) ==
                 IF r.ok
                 THEN [r.st EXCEPT !.seen = @ \cup {canonical},
                                   !.alias = Put(@, canonical, Or(preferred_name, raw)),
                                   !.stats.contacts_synced = @ + 1]
                 ELSE [r.st EXCEPT !.stats.skipped_contacts = @ + 1]
         IN  IF canonical \in st.seen
             THEN ResyncPersons([st EXCEPT !.alias = Put(@, canonical, Or(preferred_name, raw))],
                                gf, Tail(ids), preferred_name, row)
             ELSE ResyncPersons(
                      after(ClientRegisterPerson(st, gf, canonical, preferred_name,
                                                 row.given_name, row.family_name, raw,
                                                 row.source)),
                      gf, Tail(ids), preferred_name, row)

RECURSIVE ResyncContacts(_, _, _)
\* the loop over the rows of SELECT ... FROM contacts
ResyncContacts(st, gf, rows) ==
    IF rows = <<>> THEN st
    ELSE LET row == Head(rows)
             registered(ids) ==
                 IF ids = <<>>
                 THEN [st EXCEPT !.stats.skipped_contacts = @ + 1]
                 ELSE ResyncPersons(st, gf, ids,
                          Or(row.display_name,
                             Or(compose_display_name(row.given_name, row.family_name),
                                ids[1][2])),
                          row)
         IN  ResyncContacts(
                 registered(ResyncIdentifiers(row.display_name, row.given_name,
                                              row.family_name, row.phone_number, row.email)),
                 gf, Tail(rows))

RECURSIVE ResyncMessages(_, _, _)
\* the loop over the rows of SELECT ... FROM messages
ResyncMessages(st, gf, rows) ==
    IF rows = <<>> THEN st
    ELSE LET row == Head(rows)
             attrs == [timestamp |-> row.timestamp, body |-> row.body,
                       conversation_id |-> row.conversation_id, source |-> row.source]
             labelled(sender_id, receiver_id, sender_label, receiver_label) ==
                 LET after(r) ==
                         IF r.ok
                         THEN [r.st EXCEPT
                                 !.stats.relationships_synced = @ + 1,
                                 !.alias = SetDefault(SetDefault(@, sender_id, sender_label),
                                                      receiver_id, receiver_label)]
                         ELSE [r.st EXCEPT !.stats.skipped_messages = @ + 1]
                 IN  after(ClientRegisterMessage(st, gf, row.external_id, sender_id,
                                                 receiver_id, attrs, sender_label,
                                                 receiver_label))
             canonical(sender_id, receiver_id) ==
                 IF ~Truthy(sender_id) \/ ~Truthy(receiver_id)
                 THEN [st EXCEPT !.stats.skipped_messages = @ + 1]
                 ELSE labelled(sender_id, receiver_id,
                               Or(AliasGet(st.alias, sender_id), row.sender),
                               Or(AliasGet(st.alias, receiver_id), row.receiver))
         IN  ResyncMessages(canonical(canonicalize_actor(row.sender),
                                      canonicalize_actor(row.receiver)),
                            gf, Tail(rows))

\* services/graph_sync.py: GraphResyncStats.as_dict
as_dict(stats) ==
    [cleared |-> stats.cleared, contacts_synced |-> stats.contacts_synced,
     relationships_synced |-> stats.relationships_synced,
     skipped_contacts |-> stats.skipped_contacts,
     skipped_messages |-> stats.skipped_messages,
     detail |-> stats.detail, success |-> (stats.detail = NULL)]

\* reset_graph(): [persons, rels, stats, sent, clears].  clear_ok: the
\* transaction of clear_all succeeds; clears: the calls of clear_all
reset_graph(clear_ok) ==
    IF ~cfg.graph
    THEN [persons |-> persons, rels |-> rels, sent |-> <<>>, clears |-> 0,
          stats |-> [NewResyncStats EXCEPT !.detail = "Neo4j integration is disabled"]]
    ELSE IF clear_ok
    THEN [persons |-> {}, rels |-> {}, sent |-> <<>>, clears |-> 1,
          stats |-> [NewResyncStats EXCEPT !.cleared = TRUE]]
    ELSE [persons |-> persons, rels |-> rels, sent |-> <<>>, clears |-> 1,
          stats |-> [NewResyncStats EXCEPT !.detail = "Failed to clear Neo4j graph"]]

\* resync_graph that goes on to the contacts and messages after clear_all
\* has failed
resync_graph_after_failed_clear(clear_first, clear_ok, gf) ==
    LET st0 == [persons |-> persons, rels |-> rels, calls |-> 0, sent |-> <<>>,
                alias |-> EmptyDict, seen |-> {}, stats |-> NewResyncStats, clears |-> 0]
        returned(st) == [persons |-> st.persons, rels |-> st.rels, stats |-> st.stats,
                         sent |-> st.sent, clears |-> st.clears]
        synced(st) == returned(ResyncMessages(ResyncContacts(st, gf, contacts), gf, messages))
    IN  IF ~cfg.graph
        THEN returned([st0 EXCEPT !.stats.detail = "Neo4j integration is disabled"])
        ELSE IF clear_first /\ ~clear_ok
        THEN synced([st0 EXCEPT !.stats.detail = "Failed to clear Neo4j graph", !.clears = 1])
        ELSE IF clear_first
        THEN synced([st0 EXCEPT !.persons = {}, !.rels = {}, !.stats.cleared = TRUE,
                                !.clears = 1])
        ELSE synced(st0)

\* resync_graph(clear_first): [persons, rels, stats, sent, clears].  clear_ok: the
\* transaction of clear_all succeeds; gf: the transactions of register_person
\* and register_message, by number, that the graph store fails; clears: the
\* calls of clear_all
resync_graph(clear_first, clear_ok, gf) ==
    LET st0 == [persons |-> persons, rels |-> rels, calls |-> 0, sent |-> <<>>,
                alias |-> EmptyDict, seen |-> {}, stats |-> NewResyncStats, clears |-> 0]
        returned(st) == [persons |-> st.persons, rels |-> st.rels, stats |-> st.stats,
                         sent |-> st.sent, clears |-> st.clears]
        synced(st) == returned(ResyncMessages(ResyncContacts(st, gf, contacts), gf, messages))
    IN  IF ~cfg.graph
        THEN returned([st0 EXCEPT !.stats.detail = "Neo4j integration is disabled"])
        ELSE IF clear_first /\ ~clear_ok
        THEN returned([st0 EXCEPT !.stats.detail = "Failed to clear Neo4j graph", !.clears = 1])
        ELSE IF clear_first
        THEN synced([st0 EXCEPT !.persons = {}, !.rels = {}, !.stats.cleared = TRUE,
                                !.clears = 1])
        ELSE synced(st0)

\* the transactions of a resync that the graph store may fail are among its
\* first MaxResyncCalls
MaxResyncCalls == 6

ResyncCalls == 1..MaxResyncCalls

ResyncFailureSets == {g \in SUBSET ResyncCalls : Cardinality(g) <= MaxGraphFailures}

\* a call of resync_graph(clear_first) after the uploads
Resync(clear_first) ==
    \E clear_ok \in BOOLEAN, gf \in ResyncFailureSets :
        /\ run.op \notin {"resync", "reset"}
        /\ cfg.graph \/ (gf = {} /\ clear_ok)
        /\ clear_first \/ clear_ok
        /\ LET respond(r) ==
                   /\ persons' = r.persons
                   /\ rels' = r.rels
                   /\ run' = [op |-> "resync", clear_first |-> clear_first,
                              clear_ok |-> clear_ok, gf |-> gf, stats |-> r.stats,
                              sent |-> r.sent, clears |-> r.clears, before |-> Snapshot]
           IN  respond(resync_graph(clear_first, clear_ok, gf))
        /\ UNCHANGED <<uploads, images, messages, contacts, system_info, vectors, aliasMap,
                       cfg, extracted, fnVars>>

\* a call of reset_graph() after the uploads
Reset ==
    \E clear_ok \in BOOLEAN :
        /\ run.op \notin {"resync", "reset"}
        /\ cfg.graph \/ clear_ok
        /\ LET respond(r) ==
                   /\ persons' = r.persons
                   /\ rels' = r.rels
                   /\ run' = [op |-> "reset", clear_ok |-> clear_ok, stats |-> r.stats,
                              sent |-> r.sent, clears |-> r.clears, before |-> Snapshot]
           IN  respond(reset_graph(clear_ok))
        /\ UNCHANGED <<uploads, images, messages, contacts, system_info, vectors, aliasMap,
                       cfg, extracted, fnVars>>

NextLedger ==
    \/ \E a \in LedgerArchives : UploadArchive(a)
    \/ \E clear_first \in BOOLEAN : Resync(clear_first)
    \/ Reset

SpecLedger == InitLedger /\ [][NextLedger]_vars

\* the database files discover_sources classifies in archive a that SQLite opens
ClassifiedDbs(a) ==
    SelectSeq(DiscoverMessageDbs(a) \o DiscoverContactDbs(a), IsSqlite)

\* the tables, as <<database number, table number>> of ClassifiedDbs(a),
\* whose columns satisfy both heuristics
BothLikeTables(a) ==
    {p \in UNION {{<<i, j>> : j \in DOMAIN ClassifiedDbs(a)[i].tables} :
                     i \in DOMAIN ClassifiedDbs(a)} :
        /\ looks_like_message_table(ClassifiedDbs(a)[p[1]].tables[p[2]].columns)
        /\ looks_like_contact_table(ClassifiedDbs(a)[p[1]].tables[p[2]].columns)}

\* C22 (as claimed): the rows of a table whose columns satisfy both the
\* message and the contact heuristic are written to the messages table and
\* never to the contacts table, in whichever database file the table is.
C22_BothLikeTableIsMessagesOnly ==
    run.op = "ingest" =>
        \A p \in BothLikeTables(run.archive) :
            LET db == ClassifiedDbs(run.archive)[p[1]]
                table == db.tables[p[2]]
            IN  \A r \in DOMAIN table.rows :
                    /\ \E i \in DOMAIN messages :
                           messages[i].external_id = ExternalId(db, table, table.rows[r])
                    /\ ~\E j \in DOMAIN contacts :
                           /\ contacts[j].external_id = ExternalId(db, table, table.rows[r])
                           /\ contacts[j].source = PathOf(run.uid, db.name)

\* the rows, as <<database number, table number, row number>>, of the message
\* tables of the message databases of archive a that SQLite opens
MessageRowsOf(a) ==
    LET dbs == SelectSeq(DiscoverMessageDbs(a), IsSqlite)
    IN  {p \in UNION {UNION {{<<i, j, r>> : r \in DOMAIN dbs[i].tables[j].rows} :
                                j \in DOMAIN dbs[i].tables} : i \in DOMAIN dbs} :
            looks_like_message_table(dbs[p[1]].tables[p[2]].columns)}

\* external_id of such a row
RowExternalId(a, p) ==
    LET db == SelectSeq(DiscoverMessageDbs(a), IsSqlite)[p[1]]
    IN  ExternalId(db, db.tables[p[2]], db.tables[p[2]].rows[p[3]])

\* vector_id of such a row
RowVectorId(a, p) ==
    LET db == SelectSeq(DiscoverMessageDbs(a), IsSqlite)[p[1]]
    IN  MessageVectorId(RowExternalId(a, p), db.tables[p[2]].rows[p[3]].body)

\* the rows of the last run whose vector_id the ledger already held: INSERT
\* OR IGNORE skips them
SkippedInserts ==
    {p \in MessageRowsOf(run.archive) :
        /\ RowVectorId(run.archive, p) # NULL
        /\ \E i \in DOMAIN run.before.messages :
               run.before.messages[i].vector_id = RowVectorId(run.archive, p)}

\* a note of the last run reports a failure of the ledger
LedgerErrorNoted ==
    \E n \in DOMAIN run.summary.notes :
        \E d \in DOMAIN DiscoverMessageDbs(run.archive) :
            run.summary.notes[n] = "Failed parsing messages from "
                                   \o DiscoverMessageDbs(run.archive)[d].name
                                   \o ": IntegrityError"

\* C23 (as claimed): when the insert of a message is skipped because its
\* vector_id exists, every earlier row with the same external_id and a null
\* vector_id gets that vector_id, every row that had a vector_id keeps it,
\* and the step raises no error.
C23_BackfillFillsNullVectorId ==
    run.op = "ingest" =>
        /\ ~LedgerErrorNoted
        /\ \A p \in SkippedInserts :
              \A i \in DOMAIN run.before.messages :
                  /\ (/\ run.before.messages[i].external_id = RowExternalId(run.archive, p)
                      /\ run.before.messages[i].vector_id = NULL)
                         => messages[i].vector_id = RowVectorId(run.archive, p)
                  /\ run.before.messages[i].vector_id # NULL
                         => messages[i] = run.before.messages[i]

\* the rows the last run added to a ledger table
AddedRows(table, before) == RowsAfter(table, Len(before))

\* the last run added a message row for row r of table t of database db
MessageRowAdded(db, t, r) ==
    \E i \in DOMAIN AddedRows(messages, run.before.messages) :
        /\ AddedRows(messages, run.before.messages)[i].external_id = ExternalId(db, t, r)
        /\ AddedRows(messages, run.before.messages)[i].source = PathOf(run.uid, db.name)

\* the unit of message table t is in the ledger whole: every row was added,
\* or was skipped because the ledger held its vector_id before the run
MessageUnitCommitted(db, t) ==
    \A r \in DOMAIN t.rows :
        \/ MessageRowAdded(db, t, t.rows[r])
        \/ /\ MessageVectorId(ExternalId(db, t, t.rows[r]), t.rows[r].body) # NULL
           /\ \E i \in DOMAIN run.before.messages :
                  run.before.messages[i].vector_id
                      = MessageVectorId(ExternalId(db, t, t.rows[r]), t.rows[r].body)

\* no row of the unit of message table t is in the ledger
MessageUnitAbsent(db, t) ==
    \A r \in DOMAIN t.rows : ~MessageRowAdded(db, t, t.rows[r])

\* the message tables of database db, in the order of sqlite_master
MessageTables(db) ==
    SelectSeq(db.tables, LAMBDA t : looks_like_message_table(t.columns))

\* the note the last run made about file name f
NotedAs(kind, f) ==
    \E n \in DOMAIN run.summary.notes, c \in 0..Len(messages) + Len(contacts) :
        \/ /\ kind = "parsed"
           /\ \E what \in {" messages from ", " contacts from "} :
                  run.summary.notes[n] = "Parsed " \o ToString(c) \o what \o f
        \/ /\ kind = "failed"
           /\ \E exc \in {"OSError", "IntegrityError"} :
                  run.summary.notes[n] = "Failed parsing messages from " \o f \o ": " \o exc

\* C24: the ledger rows of a source table are committed together.  Of the
\* message tables of a database the first k are in the ledger whole and the
\* others, from the one that failed on, have no row in it; the database is
\* reported as failed exactly when k is not all of them.  Every contact
\* table and the image inventory are in the ledger whole, and every row the
\* ledger held before the run is as it was.
C24_UnitsCommitWhole ==
    run.op = "ingest" =>
        /\ \A d \in DOMAIN ClassifiedDbs(run.archive) :
              LET db == ClassifiedDbs(run.archive)[d]
                  ts == MessageTables(db)
              IN  IF db.hints \cap MESSAGE_DB_KEYWORDS # {}
                  THEN \E k \in 0..Len(ts) :
                          /\ \A j \in 1..k : MessageUnitCommitted(db, ts[j])
                          /\ \A j \in (k + 1)..Len(ts) : MessageUnitAbsent(db, ts[j])
                          /\ k = Len(ts) <=> NotedAs("parsed", db.name)
                          /\ k < Len(ts) <=> NotedAs("failed", db.name)
                  ELSE \A j \in DOMAIN db.tables :
                          looks_like_contact_table(db.tables[j].columns) =>
                              \A r \in DOMAIN db.tables[j].rows :
                                  \E i \in DOMAIN AddedRows(contacts, run.before.contacts) :
                                      /\ AddedRows(contacts, run.before.contacts)[i].external_id
                                             = ExternalId(db, db.tables[j], db.tables[j].rows[r])
                                      /\ AddedRows(contacts, run.before.contacts)[i].source
                                             = PathOf(run.uid, db.name)
        /\ \A rel \in ImageRels(run.archive) :
              \E i \in DOMAIN AddedRows(images, run.before.images) :
                  AddedRows(images, run.before.images)[i].file_path = PathOf(run.uid, rel)
        /\ \A i \in DOMAIN run.before.messages : messages[i] = run.before.messages[i]
        /\ \A i \in DOMAIN run.before.contacts : contacts[i] = run.before.contacts[i]

\* a run on D: the table log of chat.db is committed, then the table message
\* fails at its second row and leaves no row, and the contact tables that
\* follow are committed
C24_Witness ==
    /\ run.op = "ingest"
    /\ run.archive = "D"
    /\ run.uid > 1
    /\ NotedAs("failed", "chat.db")
    /\ LET db == ClassifiedDbs("D")[1]
       IN  /\ MessageUnitCommitted(db, db.tables[1])
           /\ MessageRowAdded(db, db.tables[1], db.tables[1].rows[1])
           /\ MessageUnitAbsent(db, db.tables[2])
    /\ Len(contacts) > Len(run.before.contacts)

-----------------------------------------------------------------------------
(* Claims on SpecLedger about the calls a run makes of the graph client,   *)
(* in ingest_ufdr_archive and in resync_graph.                             *)

\* the last request was an upload or a resync that reached the graph client
GraphRun == run.op \in {"ingest", "resync"} /\ cfg.graph

\* the positions in the run's call log of the calls of operation op with result ok
CallsOf(op, ok) == {i \in DOMAIN run.sent : run.sent[i].op = op /\ run.sent[i].ok = ok}

\* the number of persons and of relationships the run reports as registered
PersonsCounted ==
    IF run.op = "resync" THEN run.stats.contacts_synced ELSE run.stats.contacts_registered

RelationshipsCounted ==
    IF run.op = "resync" THEN run.stats.relationships_synced
    ELSE run.stats.relationships_registered

\* C26: a register_person or register_message call that the graph store fails
\* returns unsuccessful, is tallied as a skip in the run's statistics, does not
\* end the run, and adds nothing to the registered counts.
C26_FailedCallIsTalliedAsSkip ==
    (GraphRun /\ CallsOf("register_person", FALSE) \cup CallsOf("register_message", FALSE) # {}) =>
        /\ PersonsCounted <= Cardinality(CallsOf("register_person", TRUE))
        /\ RelationshipsCounted <= Cardinality(CallsOf("register_message", TRUE))
        /\ run.op = "resync" => run.stats.detail = NULL
        /\ {"skipped_contacts", "skipped_messages"} \subseteq DOMAIN run.stats
        /\ run.stats.skipped_contacts >= Cardinality(CallsOf("register_person", FALSE))
        /\ run.stats.skipped_messages >= Cardinality(CallsOf("register_message", FALSE))

\* a message row whose sender or receiver has no canonical identity
Unaddressed(sender, receiver) ==
    ~Truthy(canonicalize_actor(sender)) \/ ~Truthy(canonicalize_actor(receiver))

\* such rows among the message tables of archive a
UnaddressedRows(a) ==
    LET dbs == SelectSeq(DiscoverMessageDbs(a), IsSqlite)
    IN  {p \in MessageRowsOf(a) :
            Unaddressed(dbs[p[1]].tables[p[2]].rows[p[3]].sender,
                        dbs[p[1]].tables[p[2]].rows[p[3]].receiver)}

\* such rows among the messages of the ledger
UnaddressedMessages ==
    {i \in DOMAIN messages : Unaddressed(messages[i].sender, messages[i].receiver)}

\* the register_message calls of the last run for message id x
MessageCalls(x) ==
    {i \in DOMAIN run.sent : run.sent[i].op = "register_message" /\ run.sent[i].message_id = x}

\* C27: a message whose sender or receiver does not canonicalize to a
\* non-empty identity produces no register_message call and no relationship
\* in the graph, and the run counts it as skipped.
C27_UnaddressedMessageIsSkippedAndCounted ==
    GraphRun =>
        /\ run.op = "ingest" =>
              \A p \in UnaddressedRows(run.archive) :
                  MessageCalls(RowExternalId(run.archive, p)) = {}
        /\ run.op = "resync" /\ run.stats.detail = NULL =>
              \A x \in {messages[i].external_id : i \in DOMAIN messages} :
                  Cardinality(MessageCalls(x)) =
                      Cardinality({i \in DOMAIN messages \ UnaddressedMessages :
                                      messages[i].external_id = x})
        /\ \A r \in rels \ run.before.rels :
              \E i \in CallsOf("register_message", TRUE) :
                  /\ run.sent[i].message_id = r.message_id
                  /\ Truthy(run.sent[i].sender_id) /\ Truthy(run.sent[i].receiver_id)
        /\ run.op = "ingest" /\ UnaddressedRows(run.archive) # {} =>
              /\ "skipped_messages" \in DOMAIN run.stats
              /\ run.stats.skipped_messages >= 1
        /\ run.op = "resync" /\ run.stats.detail = NULL =>
              run.stats.skipped_messages =
                  Cardinality(UnaddressedMessages)
                  + Cardinality(CallsOf("register_message", FALSE))

\* the canonical ids the last run registered with success
RegisteredIds == {run.sent[i].identifier : i \in CallsOf("register_person", TRUE)}

\* the last run registered some canonical id with success more than once
RegisteredTwice ==
    \E i, j \in CallsOf("register_person", TRUE) :
        i # j /\ run.sent[i].identifier = run.sent[j].identifier

\* C28 (as claimed): within one run a canonical id is registered as a person
\* at most once and counted at most once, so that the count of registered
\* contacts is the number of distinct canonical ids registered with success.
C28_RegisteredAndCountedOnce ==
    GraphRun => (~RegisteredTwice /\ PersonsCounted = Cardinality(RegisteredIds))

\* C28: within one run a canonical id is counted at most once: the count of
\* registered contacts is the number of distinct canonical ids registered
\* with success, however many contact rows share an identity; a resync does
\* not register an id again once it has registered it, an upload does.
C28_CountedOnce ==
    GraphRun =>
        /\ PersonsCounted = Cardinality(RegisteredIds)
        /\ run.op = "resync" => ~RegisteredTwice

\* an upload registered one canonical id for two contact rows and counted it once
C28_Witness ==
    /\ GraphRun /\ run.op = "ingest"
    /\ RegisteredTwice
    /\ PersonsCounted = Cardinality(RegisteredIds)

\* the contact rows the last run worked on: the rows an upload added, the
\* whole table for a resync
ContactsOfRun == IF run.op = "resync" THEN contacts ELSE RunContacts

\* the identities under which contact c is to be registered: its canonical
\* phone and email, or else its canonical display name or composed name
ClaimedIdentities(c) ==
    LET direct == {x \in {canonicalize_actor(c.phone_number), canonicalize_actor(c.email)} :
                      Truthy(x)}
        name == IF Truthy(c.display_name) THEN c.display_name
                ELSE compose_display_name(c.given_name, c.family_name)
    IN  IF direct # {} THEN direct
        ELSE {x \in {canonicalize_actor(name)} : Truthy(x)}

\* the identities the last run called register_person with
CalledIds == {run.sent[i].identifier : i \in CallsOf("register_person", TRUE)
                                            \cup CallsOf("register_person", FALSE)}

\* C29: in an upload and in a resync alike, every contact is registered
\* under its canonical phone and its canonical email when present, and
\* otherwise under its canonical display name or, without a display name,
\* its canonical composed given and family name.
C29_ContactIdentitiesRegistered ==
    (GraphRun /\ (run.op = "resync" => run.stats.detail = NULL)) =>
        CalledIds = UNION {ClaimedIdentities(ContactsOfRun[i]) : i \in DOMAIN ContactsOfRun}

-----------------------------------------------------------------------------
(* Claims on Spec about the images table as a whole.                       *)

\* C32: in every ledger state every image row has caption_status pending,
\* done or failed, and its vector_id is set exactly when the status is done,
\* in which case it is img:<id of the row>.
C32_ImageStatusAndVectorId ==
    \A i \in DOMAIN images :
        /\ images[i].caption_status \in {"pending", "done", "failed"}
        /\ (images[i].vector_id # NULL) <=> (images[i].caption_status = "done")
        /\ images[i].caption_status = "done" => images[i].vector_id = "img:" \o ToString(i)

\* the ledger holds rows of two uploads, a captioned row that is not the
\* first row among them and a row whose captioning failed
C32_Witness ==
    /\ uploads = 2
    /\ \E i \in DOMAIN images :
          i > 1 /\ images[i].caption_status = "done"
                /\ images[i].vector_id = "img:" \o ToString(i)
    /\ \E i \in DOMAIN images :
          images[i].caption_status = "failed" /\ images[i].vector_id = NULL

\* C33: for every vector_id that the vector store and the messages table both
\* hold, the text in the vector store is the body of the message row that
\* carries the vector_id.
C33_VectorTextIsLedgerBody ==
    \A i \in DOMAIN messages :
        (messages[i].vector_id # NULL /\ messages[i].vector_id \in DOMAIN vectors)
            => vectors[messages[i].vector_id].text = messages[i].body

-----------------------------------------------------------------------------
(* Claims on SpecLedger about what an upload leaves in the graph, the      *)
(* summary and the vector store when a table fails or repeats.             *)

\* C34: after an upload, every MESSAGED relationship the run wrote to the
\* graph carries as message_id the external_id of a committed row of the
\* messages table.
C34_RelationshipHasLedgerRow ==
    (run.op = "ingest" /\ cfg.graph) =>
        \A i \in CallsOf("register_message", TRUE) :
            /\ \E r \in rels : r.message_id = run.sent[i].message_id
            /\ \E j \in DOMAIN messages : messages[j].external_id = run.sent[i].message_id

\* C35: messages_ingested in the summary of an upload is the number of
\* message rows the upload committed to the ledger, also when a table of a
\* database fails after other tables of that database were committed.
C35_MessagesIngestedIsRowsCommitted ==
    (run.op = "ingest" /\ ~run.raised) =>
        run.summary.messages_ingested = Len(messages) - Len(run.before.messages)

\* the last request was resync_graph(clear_first=True), it ran to its end,
\* and the graph store failed no call of it nor of the uploads before it
CleanRebuild ==
    /\ run.op = "resync" /\ cfg.graph /\ run.clear_first
    /\ run.stats.detail = NULL /\ run.gf = {}
    /\ uploads >= 1
    /\ \A u \in DOMAIN extracted : extracted[u].gf = {}

\* C37: resync_graph(clear_first=True) after one or more uploads rebuilds the
\* graph the uploads built: the same Person ids and the same MESSAGED
\* relationships (sender, receiver, message_id).
C37_ResyncRebuildsIngestedGraph ==
    CleanRebuild =>
        /\ PersonIds(persons) = PersonIds(run.before.persons)
        /\ EdgeKeys(persons, rels) = EdgeKeys(run.before.persons, run.before.rels)

\* the graph is as it was before the run, and the run called none of
\* register_person and register_message
NothingRegistered ==
    /\ run.sent = <<>>
    /\ persons = run.before.persons
    /\ rels = run.before.rels

\* the stats of the run, as returned to the caller, tell the failure
ReportsFailure ==
    /\ as_dict(run.stats).detail # NULL
    /\ as_dict(run.stats).success = FALSE

\* resync_graph(clear_first=True) with the graph store enabled, whose
\* clear_all failed
ClearFailed ==
    /\ run.op = "resync" /\ cfg.graph
    /\ run.clear_first /\ ~run.clear_ok

\* C38: resync_graph(clear_first=True) registers no person and no message
\* when clearing the graph fails, and resync_graph and reset_graph make no
\* graph call at all, clear_all included, when the graph store is disabled;
\* in both cases the stats returned carry a detail and report success false.
C38_FailedClearAndDisabledStoreRegisterNothing ==
    /\ ClearFailed => (NothingRegistered /\ ReportsFailure)
    /\ (run.op \in {"resync", "reset"} /\ ~cfg.graph)
           => (NothingRegistered /\ run.clears = 0 /\ ReportsFailure)

\* a resync whose clear_all failed, over a ledger with contacts and messages
\* it would have registered in a graph that holds persons
C38_Witness ==
    /\ ClearFailed
    /\ run.clears = 1
    /\ run.stats.detail = "Failed to clear Neo4j graph"
    /\ \E i \in DOMAIN messages :
           /\ Truthy(canonicalize_actor(messages[i].sender))
           /\ Truthy(canonicalize_actor(messages[i].receiver))
    /\ contacts # <<>>
    /\ persons # {}

\* the canonical ids whose alias the contact registration of the last
\* upload stored
SeededByUpload ==
    {run.sent[i].identifier : i \in CallsOf("register_person", TRUE)} \cap DOMAIN aliasMap

\* CONTACT_ALIAS_MAP after _register_message_with_graph for ledger row m, on
\* the map and the graph as they are; gf = {1}: the transaction fails
AliasAfterMessage(m, gf) ==
    register_message_with_graph(
        [messages |-> messages, contacts |-> contacts, images |-> images,
         persons |-> persons, rels |-> rels, alias |-> aliasMap,
         stats |-> NewGraphStats, calls |-> 0, sent |-> <<>>],
        gf, m.external_id, m.sender, m.receiver,
        [timestamp |-> m.timestamp, body |-> m.body,
         conversation_id |-> m.conversation_id, source |-> m.source]).alias

\* the state of resync_graph before its loop over the contacts
ResyncStart ==
    [persons |-> IF run.clear_first THEN {} ELSE run.before.persons,
     rels |-> IF run.clear_first THEN {} ELSE run.before.rels,
     calls |-> 0, sent |-> <<>>, alias |-> EmptyDict, seen |-> {},
     stats |-> [NewResyncStats EXCEPT !.cleared = run.clear_first],
     clears |-> IF run.clear_first THEN 1 ELSE 0]

\* the state of resync_graph between its two loops
ResyncSeeded == ResyncContacts(ResyncStart, run.gf, contacts)

\* alias_map of resync_graph after the first n rows of the messages loop
ResyncAliasAfter(seeded, n) == ResyncMessages(seeded, run.gf, SubSeq(messages, 1, n)).alias

\* map after agrees with map seeded on every key of keys
KeepsAliases(keys, seeded, after) ==
    \A k \in keys : k \in DOMAIN after /\ after[k] = seeded[k]

\* C39: once contact registration has stored an alias for a canonical id in
\* a run, labelling and registering a message leaves that alias as it is: in
\* the ingestion path, _register_message_with_graph on the map an upload's
\* contacts left, for every message of the ledger, the transaction failing
\* or not; in the resync path, after every row of the messages loop.
C39_SeededAliasIsKept ==
    /\ (run.op = "ingest" /\ cfg.graph) =>
           \A j \in DOMAIN messages, gf \in {{}, {1}} :
               KeepsAliases(SeededByUpload, aliasMap, AliasAfterMessage(messages[j], gf))
    /\ (run.op = "resync" /\ run.stats.detail = NULL) =>
           LET kept(seeded) ==
                   \A n \in 0..Len(messages) :
                       KeepsAliases(DOMAIN seeded.alias, seeded.alias,
                                    ResyncAliasAfter(seeded, n))
           IN  kept(ResyncSeeded)

\* a message of the ledger whose sender has an alias from a contact, the
\* alias being another text than the sender as the message has it
SenderSeededAs(j, map) ==
    /\ Truthy(canonicalize_actor(messages[j].sender))
    /\ Truthy(canonicalize_actor(messages[j].receiver))
    /\ canonicalize_actor(messages[j].sender) \in DOMAIN map
    /\ map[canonicalize_actor(messages[j].sender)] # messages[j].sender

\* an upload after whose contacts a message of the ledger is registered and
\* whose sender's alias is a contact's name
C39_WitnessUpload ==
    /\ run.op = "ingest" /\ cfg.graph
    /\ \E j \in DOMAIN messages :
           /\ SenderSeededAs(j, aliasMap)
           /\ canonicalize_actor(messages[j].sender) \in SeededByUpload
           /\ AliasAfterMessage(messages[j], {})[canonicalize_actor(messages[j].sender)]
                  = aliasMap[canonicalize_actor(messages[j].sender)]

\* a resync whose messages loop registers a message whose sender the
\* contacts loop has given an alias
C39_Witness ==
    /\ run.op = "resync" /\ run.stats.detail = NULL
    /\ ResyncMessages(ResyncSeeded, run.gf, messages).sent = run.sent
    /\ \E j \in DOMAIN messages : SenderSeededAs(j, ResyncSeeded.alias)
    /\ \E i \in CallsOf("register_message", TRUE) :
           run.sent[i].sender_label # run.sent[i].sender_id

-----------------------------------------------------------------------------
(* Specification SpecReindex: uploads of the archives A and B with the     *)
(* vector store enabled and the graph store disabled, so that an archive   *)
(* can be uploaded once more after an upload of the other one.             *)

MaxReindexUploads == 3

ReindexArchives == {"A", "B"}

InitReindex ==
    /\ LedgerEmpty
    /\ cfg \in [graph : {FALSE}, vector : {TRUE}, vision : BOOLEAN]
    /\ FnIdle

\* POST /upload with archive a
UploadForIndex(a) ==
    /\ uploads < MaxReindexUploads
    /\ IngestExtracted(a)
    /\ UNCHANGED <<cfg, fnVars>>

NextReindex == \E a \in ReindexArchives : UploadForIndex(a)

SpecReindex == InitReindex /\ [][NextReindex]_vars

\* the last upload indexed its batch, and an earlier upload of the same
\* archive failed to index
IndexedAfterFailure ==
    /\ run.op = "ingest" /\ ~run.raised
    /\ run.eo = "ok" /\ run.batch # <<>>
    /\ \E u \in 1..(run.uid - 1) :
          extracted[u].archive = run.archive /\ extracted[u].eo = "RuntimeError"

\* C36: when indexing failed in one upload, a later upload of the same
\* archive in which indexing succeeds stores a vector entry for every message
\* of the archive that has a body, the inserts of those messages being
\* skipped as duplicates.
C36_ReindexStoresEveryBody ==
    IndexedAfterFailure =>
        \A p \in MessageRowsOf(run.archive) :
            RowVectorId(run.archive, p) # NULL
                => RowVectorId(run.archive, p) \in DOMAIN vectors

-----------------------------------------------------------------------------
(* Specification SpecRetry: services/llm.py, the retry loops of            *)
(* GeminiVisionClient.describe_image and GeminiClient.generate_answer.     *)
(* fnIn is [fn, attempts, contents, exists]: the method, the setting       *)
(* gemini_retry_attempts, the request built before the loop and whether    *)
(* the image file exists.  fnOut is [attempt, calls, last_error, result,   *)
(* exc]: calls logs every generate_content call with its payload and what  *)
(* came of it.  A step of the loop is one call of the model.               *)

MaxRetryAttempts == 3

RetryFunctions == {"describe_image", "generate_answer"}

RetryContents == {"request-1", "request-2"}

\* range(1, gemini_retry_attempts + 2): one attempt too many
RetryRangeOneMore(attempts) == 1..(attempts + 1)

\* range(1, self._settings.gemini_retry_attempts + 1)
RetryRange(attempts) == 1..attempts

\* what one call of self._model.generate_content can come to
ModelOutcomes ==
    {"GoogleAPIError",     \* the request fails in the API layer
     "OtherError",         \* an exception that is neither GoogleAPIError nor ValueError
     "empty",              \* no response, or response.text is ""
     "blocked",            \* response.text raises ValueError (no valid part)
     "no-json",            \* text without a JSON object
     "bad-json",           \* text whose braces do not hold valid JSON
     "no-caption",         \* a JSON object without caption or description
     "caption-not-text",   \* a JSON object whose caption is a number
     "usable"}             \* text, and for the vision call a JSON object with a caption

\* one pass of the loop body of describe_image: return the description,
\* go on with the next attempt (the error is kept in last_error), or let an
\* exception leave the method
describe_image_attempt(outcome) ==
    CASE outcome = "usable" -> [k |-> "return", value |-> "ImageDescription"]
      [] outcome = "empty" ->
            [k |-> "retry", error |-> "RuntimeError: Gemini Vision returned an empty response."]
      [] outcome = "GoogleAPIError" -> [k |-> "retry", error |-> "GoogleAPIError"]
      [] outcome = "blocked" -> [k |-> "retry", error |-> "ValueError"]
      [] outcome = "no-json" ->
            [k |-> "retry", error |-> "ValueError: No JSON object found in Gemini response"]
      [] outcome = "bad-json" -> [k |-> "retry", error |-> "JSONDecodeError"]
      [] outcome = "no-caption" ->
            [k |-> "retry", error |-> "ValueError: Caption missing from Gemini Vision response"]
      [] outcome = "caption-not-text" -> [k |-> "escape", exc |-> "AttributeError"]
      [] OTHER -> [k |-> "escape", exc |-> "OtherError"]

\* one pass of the loop body of generate_answer: any text is returned as it is
generate_answer_attempt(outcome) ==
    CASE outcome \in {"usable", "no-json", "bad-json", "no-caption", "caption-not-text"} ->
            [k |-> "return", value |-> "text"]
      [] outcome = "empty" ->
            [k |-> "retry", error |-> "RuntimeError: Gemini returned an empty response."]
      [] outcome = "GoogleAPIError" -> [k |-> "retry", error |-> "GoogleAPIError"]
      [] outcome = "blocked" -> [k |-> "retry", error |-> "ValueError"]
      [] OTHER -> [k |-> "escape", exc |-> "OtherError"]

InitRetry ==
    /\ LedgerEmpty
    /\ cfg = [graph |-> FALSE, vector |-> TRUE, vision |-> TRUE]
    /\ fnIn \in {[fn |-> f, attempts |-> n, contents |-> c, exists |-> e] :
                    f \in RetryFunctions, n \in 0..MaxRetryAttempts, c \in RetryContents,
                    e \in BOOLEAN}
    /\ fnIn.fn = "generate_answer" => fnIn.exists
    /\ fnOut = [attempt |-> 1, calls |-> <<>>, last_error |-> NULL, result |-> NULL,
                exc |-> NULL]
    /\ fnPc = "call"

\* the method up to its loop: describe_image raises FileNotFoundError for a
\* path that does not exist, otherwise the request is built
BuildRequest ==
    /\ fnPc = "call"
    /\ IF fnIn.fn = "describe_image" /\ ~fnIn.exists
       THEN fnPc' = "raised" /\ fnOut' = [fnOut EXCEPT !.exc = "FileNotFoundError"]
       ELSE fnPc' = "loop" /\ fnOut' = fnOut
    /\ UNCHANGED <<fnIn, ledgerVars>>

\* one attempt: self._model.generate_content(contents, ...) and what the
\* loop body does with its outcome
CallModel(outcome) ==
    /\ fnPc = "loop"
    /\ fnOut.attempt \in RetryRange(fnIn.attempts)
    /\ LET called == [fnOut EXCEPT !.calls = Append(@, [payload |-> fnIn.contents,
                                                           outcome |-> outcome])]
           r == IF fnIn.fn = "describe_image" THEN describe_image_attempt(outcome)
                ELSE generate_answer_attempt(outcome)
       IN  CASE r.k = "return" ->
                   fnPc' = "returned" /\ fnOut' = [called EXCEPT !.result = r.value]
             [] r.k = "escape" ->
                   fnPc' = "raised" /\ fnOut' = [called EXCEPT !.exc = r.exc]
             [] OTHER ->
                   /\ fnPc' = "loop"
                   /\ fnOut' = [called EXCEPT !.attempt = @ + 1, !.last_error = r.error]
    /\ UNCHANGED <<fnIn, ledgerVars>>

\* the loop is over: raise RuntimeError(f"... request failed: {last_error}")
RaiseRequestFailed ==
    /\ fnPc = "loop"
    /\ fnOut.attempt \notin RetryRange(fnIn.attempts)
    /\ fnPc' = "raised"
    /\ fnOut' = [fnOut EXCEPT !.exc = "RuntimeError: request failed"]
    /\ UNCHANGED <<fnIn, ledgerVars>>

NextRetry ==
    \/ BuildRequest
    \/ \E outcome \in ModelOutcomes : CallModel(outcome)
    \/ RaiseRequestFailed

\* every call of the model returns or raises, and the interpreter goes on
SpecRetry == InitRetry /\ [][NextRetry]_vars /\ WF_vars(NextRetry)

\* the attempts of the call that went on to the next attempt
RetriedOutcomes(fn) ==
    IF fn = "describe_image"
    THEN {"GoogleAPIError", "empty", "blocked", "no-json", "bad-json", "no-caption"}
    ELSE {"GoogleAPIError", "empty", "blocked"}

RetryOver == fnPc \in {"returned", "raised"}

RetryBounded ==
    /\ Len(fnOut.calls) <= fnIn.attempts
    /\ \A i \in DOMAIN fnOut.calls : fnOut.calls[i].payload = fnIn.contents
    /\ \A i \in DOMAIN fnOut.calls :
          i < Len(fnOut.calls) => fnOut.calls[i].outcome \in RetriedOutcomes(fnIn.fn)
    /\ fnPc = "returned" =>
          /\ fnOut.calls # <<>>
          /\ fnOut.calls[Len(fnOut.calls)].outcome \notin RetriedOutcomes(fnIn.fn)
          /\ fnOut.calls[Len(fnOut.calls)].outcome \notin {"GoogleAPIError", "OtherError"}
    /\ (RetryOver /\ Len(fnOut.calls) = fnIn.attempts /\ fnOut.exc # "FileNotFoundError"
        /\ \A i \in DOMAIN fnOut.calls : fnOut.calls[i].outcome \in RetriedOutcomes(fnIn.fn))
          => (fnPc = "raised" /\ fnOut.exc = "RuntimeError: request failed")

\* C31: describe_image and generate_answer call the model at most
\* gemini_retry_attempts times, every time with the request built before the
\* loop, make no call after the first attempt that gives a response they
\* return, raise once the last attempt has failed, and always come to an end.
C31_BoundedRetryTerminates == [](RetryBounded) /\ <>(RetryOver)

\* three attempts failed, each with the same request, and the method raised
C31_Witness ==
    /\ fnPc = "raised" /\ fnOut.exc = "RuntimeError: request failed"
    /\ fnIn.attempts = 3 /\ Len(fnOut.calls) = 3
    /\ fnOut.calls[1].outcome = "GoogleAPIError"
    /\ fnOut.calls[3].outcome = "empty"

====
